---- MODULE Spec2Model ----
(***************************************************************************)
(* DCBridge (src/src/bridge.cpp, bridge.h) and the BridgeListeners router  *)
(* (src/src/bridge_listeners.h) as an interleaving state machine.          *)
(*                                                                         *)
(* Host threads call facade operations on DCBridge instances.  An          *)
(* operation is a sequence of steps; pc[t] names the statement thread t    *)
(* executes next.  A step that only takes m_mutex, touches local tables    *)
(* and releases it again is one atomic step; a lock that stays held over   *)
(* an engine call or over another lock is taken in a step of its own, so   *)
(* that "holds the lock while ..." is a state predicate.  The engine       *)
(* (dcpp) is represented by what the facade can observe of it: how many    *)
(* times its singletons are constructed, its socket worker threads, the    *)
(* Lua state slot, the Client objects handed out by ClientManager and the  *)
(* DirectoryListing objects.                                               *)
(***************************************************************************)
EXTENDS Integers, Sequences, FiniteSets, TLC

\* ------------------------------------------------------------------------
\* Bounds and enumerations of inputs
\* ------------------------------------------------------------------------
Bridges == {"b1", "b2"}          \* DCBridge instances in the process
Threads == {"t1", "t2"}          \* host threads
Urls == {"u1", "u2"}             \* hub URLs
ListIds == {"l1"}                \* file list ids
Sinks == {"cb1"}                 \* DCClientCallback objects
CfgArgs == {"", "cfg"}           \* configDir arguments of initialize()
MaxClients == 2                  \* Client objects ClientManager hands out

NoThread == "nobody"             \* a free mutex
NoBridge == "nullptr"            \* null DCBridge* / no instance
NoSink == "nullptr"              \* null DCClientCallback*
NoKey == "-"                     \* no url / id argument
NullClient == 0                  \* null Client*
Worker == "w"                    \* the engine worker thread that fires events
MaxLines == 2                    \* chat lines a hub sends in the small models
ChatLines == 503                 \* chat lines a hub sends in the history model
MAX_HISTORY == 500               \* bridge_listeners.cpp:30
NumWorkers == 2                  \* worker threads firing at the same time
BurstEvents == 1                 \* events each of them fires
BurstWorkers == 1..NumWorkers

VARIABLES
    \* per host thread: position and stack frame
    pc, br, key, cap, ret,
    \* per DCBridge instance (bridge.h:332-341)
    m_initialized, m_mutex, m_configDir, m_callback, m_hubs, m_fileLists,
    \* process-wide guard (bridge.cpp:174-175)
    g_dcppStarted, g_dcppStartupMutex,
    \* the engine as seen from the facade
    engineLive, luaSlot, workers, clients, liveListings,
    \* BridgeListeners singleton (bridge_listeners.h:456-458)
    bl_bridge, bl_callback, bl_subscribed,
    \* an engine worker thread dispatching a listener event to the router
    wpc, wev, lineNo,
    \* engine worker threads firing a burst of events at once
    burst,
    \* the argument of a host call, the locals addMagnet parses out of it,
    \* the value the call returned, and the engine's download queue
    callArg, am_local, callOut, queue,
    \* the engine's settings registry (SettingsManager) and the settings
    \* file in the configuration directory
    registry, stored,
    \* the cached interpreter entry points (bridge.cpp:95-101) are resolved
    s_lua

locals == <<pc, br, key, cap, ret>>
bridgeVars == <<m_initialized, m_mutex, m_configDir, m_callback, m_hubs, m_fileLists>>
guardVars == <<g_dcppStarted, g_dcppStartupMutex>>
engineVars == <<engineLive, luaSlot, workers, clients, liveListings>>
routerVars == <<bl_bridge, bl_callback, bl_subscribed>>
\* The settings the model knows, by the type SettingsManager::getType
\* reports for them (bridge.cpp:1189-1203); any other name is unknown.
StrSettings == {"Description"}
IntSettings == {"Slots"}
Int64Settings == {"TotalUpload"}
KnownSettings == StrSettings \cup IntSettings \cup Int64Settings

\* the registry before any file is loaded: the engine's defaults
Defaults == [n \in KnownSettings |-> IF n \in StrSettings THEN <<>> ELSE 0]

vars == <<pc, br, key, cap, ret,
          m_initialized, m_mutex, m_configDir, m_callback, m_hubs, m_fileLists,
          g_dcppStarted, g_dcppStartupMutex,
          engineLive, luaSlot, workers, clients, liveListings,
          bl_bridge, bl_callback, bl_subscribed,
          wpc, wev, lineNo, burst,
          callArg, am_local, callOut, queue,
          registry, stored, s_lua>>
eventVars == <<wpc, wev, lineNo, burst>>
valueVars == <<callArg, am_local, callOut, queue>>
settingVars == <<registry, stored>>
processVars == <<registry, stored, s_lua>>

\* Everything but the threads' positions, frames and the two mutexes: the
\* state an operation can be said to "touch".
dataVars == <<m_initialized, m_configDir, m_callback, m_hubs, m_fileLists,
              g_dcppStarted, engineLive, luaSlot, workers, clients,
              liveListings, bl_bridge, bl_callback, bl_subscribed>>

\* ------------------------------------------------------------------------
\* Data
\* ------------------------------------------------------------------------
EmptyMap == [u \in {} |-> 0]

\* bridge.cpp:399-404: a fresh HubData with the client and cachedInfo.url
NewHubData(client, url) ==
    [client |-> client,
     cachedInfo |-> [url |-> url, connected |-> FALSE],
     chatHistory |-> <<>>,
     searchResults |-> <<>>,
     users |-> {}]

MapPut(m, k, v) == [x \in DOMAIN m \cup {k} |-> IF x = k THEN v ELSE m[x]]
MapErase(m, k) == [x \in DOMAIN m \ {k} |-> m[x]]

\* bridge.cpp:213-226: default directory when empty, trailing slash ensured
ResolveCfgDir(configDir) ==
    IF configDir = "" THEN "~/.eiskaltdcpp-py/" ELSE configDir \o "/"

\* A Client object as ClientManager::getClient returns it
NewClient(url) ==
    [url |-> url, attached |-> FALSE, connected |-> FALSE, released |-> FALSE]

MinOf(S) == CHOOSE x \in S : \A y \in S : x <= y

\* no listener event is being dispatched
NoEvent == [kind |-> "none", h |-> NullClient, url |-> NoKey, line |-> 0,
            b |-> NoBridge, cb |-> NoSink, committed |-> FALSE, got |-> <<>>]

\* a worker thread that is not inside a listener callback
IdleBurst == [pc |-> "idle", h |-> NullClient, b |-> NoBridge,
              cb |-> NoSink, n |-> 0]

\* DCBridge::findHub (bridge.cpp:1365-1368) as a test
HasHub(b, url) == b # NoBridge /\ url \in DOMAIN m_hubs[b]

\* bridge_listeners.cpp:27-33: push_back, then pop_front while over MAX_HISTORY
RECURSIVE TrimFront(_)
TrimFront(h) == IF Len(h) > MAX_HISTORY THEN TrimFront(Tail(h)) ELSE h
PushChat(h, line) == TrimFront(Append(h, line))

\* DCBridge::getChatHistory (bridge.cpp:492-509) with maxLines = 0: every line
getChatHistory(b, url) ==
    IF ~m_initialized[b] THEN <<>>
    ELSE IF url \notin DOMAIN m_hubs[b] THEN <<>>
    ELSE m_hubs[b][url].chatHistory

\* DCBridge::isHubConnected (bridge.cpp:446-452)
isHubConnected(b, url) ==
    /\ m_initialized[b]
    /\ url \in DOMAIN m_hubs[b]
    /\ m_hubs[b][url].cachedInfo.connected

\* DCBridge::listHubs (bridge.cpp:428-444): the cached snapshots
listHubs(b) ==
    IF ~m_initialized[b] THEN {}
    ELSE {m_hubs[b][u].cachedInfo : u \in DOMAIN m_hubs[b]}

\* ------------------------------------------------------------------------
\* Initial state: after construction of the instances, nothing initialized
\* ------------------------------------------------------------------------
Init ==
    /\ pc = [t \in Threads |-> "idle"]
    /\ br = [t \in Threads |-> NoBridge]
    /\ key = [t \in Threads |-> NoKey]
    /\ cap = [t \in Threads |-> {}]
    /\ ret = [t \in Threads |-> "none"]
    /\ m_initialized = [b \in Bridges |-> FALSE]
    /\ m_mutex = [b \in Bridges |-> NoThread]
    /\ m_configDir = [b \in Bridges |-> ""]
    /\ m_callback = [b \in Bridges |-> NoSink]
    /\ m_hubs = [b \in Bridges |-> EmptyMap]
    /\ m_fileLists = [b \in Bridges |-> {}]
    /\ g_dcppStarted = FALSE
    /\ g_dcppStartupMutex = NoThread
    /\ engineLive = 0
    /\ luaSlot = "null"
    /\ workers = {}
    /\ clients = <<>>
    /\ liveListings = {}
    /\ bl_bridge = NoBridge
    /\ bl_callback = NoSink
    /\ bl_subscribed = FALSE
    /\ wpc = "idle"
    /\ wev = NoEvent
    /\ lineNo = 0
    /\ burst = [w \in BurstWorkers |-> IdleBurst]
    /\ callArg = <<>>
    /\ am_local = <<>>
    /\ callOut = <<>>
    /\ queue = {}
    /\ registry = Defaults
    /\ stored = Defaults
    /\ s_lua = FALSE

\* ------------------------------------------------------------------------
\* Control flow helpers
\* ------------------------------------------------------------------------
\* enter an operation: remember the instance and the argument
Enter(t, label, b, k) ==
    /\ pc' = [pc EXCEPT ![t] = label]
    /\ br' = [br EXCEPT ![t] = b]
    /\ key' = [key EXCEPT ![t] = k]
    /\ ret' = [ret EXCEPT ![t] = "none"]
    /\ UNCHANGED cap

\* go on to the next statement of the same operation
Goto(t, label) ==
    /\ pc' = [pc EXCEPT ![t] = label]
    /\ UNCHANGED <<br, key, ret>>

\* return to the caller with an outcome; the frame is gone
Return(t, outcome) ==
    /\ pc' = [pc EXCEPT ![t] = "idle"]
    /\ br' = [br EXCEPT ![t] = NoBridge]
    /\ key' = [key EXCEPT ![t] = NoKey]
    /\ cap' = [cap EXCEPT ![t] = {}]
    /\ ret' = [ret EXCEPT ![t] = outcome]

\* ------------------------------------------------------------------------
\* DCBridge::initialize (bridge.cpp:193-279)
\* ------------------------------------------------------------------------
\* :194-196  already initialized: return true, before any lock is taken
initialize_call(t, B, C) ==
    /\ pc[t] = "idle"
    /\ UNCHANGED <<eventVars, valueVars, processVars>>
    /\ \E b \in B, c \in C :
        IF m_initialized[b]
        THEN /\ Return(t, "init_already")
             /\ UNCHANGED <<bridgeVars, guardVars, engineVars, routerVars>>
        ELSE /\ Enter(t, "init_lock", b, c)
             /\ UNCHANGED <<bridgeVars, guardVars, engineVars, routerVars>>

\* :198  std::lock_guard lock(m_mutex), held until the function returns
initialize_lock(t) ==
    /\ pc[t] = "init_lock"
    /\ UNCHANGED <<eventVars, valueVars, processVars>>
    /\ m_mutex[br[t]] = NoThread
    /\ m_mutex' = [m_mutex EXCEPT ![br[t]] = t]
    /\ Goto(t, "init_glock")
    /\ UNCHANGED <<cap, m_initialized, m_configDir, m_callback, m_hubs,
                   m_fileLists, guardVars, engineVars, routerVars>>

\* :204  std::lock_guard glock(g_dcppStartupMutex), m_mutex still held
initialize_glock(t) ==
    /\ pc[t] = "init_glock"
    /\ UNCHANGED <<eventVars, valueVars, processVars>>
    /\ g_dcppStartupMutex = NoThread
    /\ g_dcppStartupMutex' = t
    /\ Goto(t, "init_gcheck")
    /\ UNCHANGED <<cap, bridgeVars, g_dcppStarted, engineVars, routerVars>>

\* initialize() with the config directory stored before the flag is looked at
initialize_gcheck_storesDirFirst(t) ==
    /\ pc[t] = "init_gcheck"
    /\ UNCHANGED <<eventVars, valueVars, processVars>>
    /\ g_dcppStartupMutex' = NoThread
    /\ m_configDir' = [m_configDir EXCEPT ![br[t]] = ResolveCfgDir(key[t])]
    /\ IF g_dcppStarted
       THEN /\ m_mutex' = [m_mutex EXCEPT ![br[t]] = NoThread]
            /\ Return(t, "init_refused")
       ELSE /\ Goto(t, "init_cfg")
            /\ UNCHANGED <<cap, m_mutex>>
    /\ UNCHANGED <<m_initialized, m_callback, m_hubs, m_fileLists,
                   g_dcppStarted, engineVars, routerVars>>

\* :205-210  the core already runs: return false (both guards unlock);
\*           otherwise only glock's scope ends
initialize_gcheck(t) ==
    /\ pc[t] = "init_gcheck"
    /\ UNCHANGED <<eventVars, valueVars, processVars>>
    /\ g_dcppStartupMutex' = NoThread
    /\ IF g_dcppStarted
       THEN /\ m_mutex' = [m_mutex EXCEPT ![br[t]] = NoThread]
            /\ Return(t, "init_refused")
       ELSE /\ Goto(t, "init_cfg")
            /\ UNCHANGED <<cap, m_mutex>>
    /\ UNCHANGED <<m_initialized, m_configDir, m_callback, m_hubs, m_fileLists,
                   g_dcppStarted, engineVars, routerVars>>

\* :213-236  resolve and store the directory, then create it; a filesystem
\*           exception returns false
initialize_cfg(t) ==
    /\ pc[t] = "init_cfg"
    /\ UNCHANGED <<eventVars, valueVars, processVars>>
    /\ m_configDir' = [m_configDir EXCEPT ![br[t]] = ResolveCfgDir(key[t])]
    /\ \E created \in BOOLEAN :
        IF created
        THEN /\ Goto(t, "init_startup")
             /\ UNCHANGED <<cap, m_mutex>>
        ELSE /\ m_mutex' = [m_mutex EXCEPT ![br[t]] = NoThread]
             /\ Return(t, "init_fsfail")
    /\ UNCHANGED <<m_initialized, m_callback, m_hubs, m_fileLists,
                   guardVars, engineVars, routerVars>>

\* :241-248  Util::initialize, dcpp::startup: the singletons are constructed
initialize_startup(t) ==
    /\ pc[t] = "init_startup"
    /\ UNCHANGED <<eventVars, valueVars, stored, s_lua>>
    /\ engineLive' = engineLive + 1
    /\ registry' = stored
    /\ Goto(t, "init_flag")
    /\ UNCHANGED <<cap, bridgeVars, guardVars, luaSlot, workers, clients,
                   liveListings, routerVars>>

\* :251  g_dcppStarted.store(true)
initialize_flag(t) ==
    /\ pc[t] = "init_flag"
    /\ UNCHANGED <<eventVars, valueVars, processVars>>
    /\ g_dcppStarted' = TRUE
    /\ Goto(t, "init_post")
    /\ UNCHANGED <<cap, bridgeVars, g_dcppStartupMutex, engineVars, routerVars>>

\* :255-275  default nick, initLuaScriptingIfPresent (:114-158: a fresh state
\*           is published only into an empty slot), TimerManager::start,
\*           setBridge(this), subscribeGlobal
initialize_post(t) ==
    /\ pc[t] = "init_post"
    /\ UNCHANGED <<eventVars, valueVars, settingVars>>
    /\ luaSlot' = IF luaSlot = "null" THEN "open" ELSE luaSlot
    /\ s_lua' = (s_lua \/ luaSlot = "null")
    /\ bl_bridge' = br[t]
    /\ bl_subscribed' = TRUE
    /\ Goto(t, "init_done")
    /\ UNCHANGED <<cap, bridgeVars, guardVars, engineLive, workers, clients,
                   liveListings, bl_callback>>

\* :277-278  m_initialized.store(true); return true (m_mutex unlocks)
initialize_done(t) ==
    /\ pc[t] = "init_done"
    /\ UNCHANGED <<eventVars, valueVars, processVars>>
    /\ m_initialized' = [m_initialized EXCEPT ![br[t]] = TRUE]
    /\ m_mutex' = [m_mutex EXCEPT ![br[t]] = NoThread]
    /\ Return(t, "init_ok")
    /\ UNCHANGED <<m_configDir, m_callback, m_hubs, m_fileLists,
                   guardVars, engineVars, routerVars>>

initialize(t, B, C) ==
    \/ initialize_call(t, B, C)
    \/ initialize_lock(t)
    \/ initialize_glock(t)
    \/ initialize_gcheck(t)
    \/ initialize_cfg(t)
    \/ initialize_startup(t)
    \/ initialize_flag(t)
    \/ initialize_post(t)
    \/ initialize_done(t)

\* ------------------------------------------------------------------------
\* DCBridge::shutdown (bridge.cpp:281-355)
\* ------------------------------------------------------------------------
\* :282-284  not initialized: return
shutdown_call(t, B) ==
    /\ pc[t] = "idle"
    /\ UNCHANGED <<eventVars, valueVars, processVars>>
    /\ \E b \in B :
        IF ~m_initialized[b]
        THEN Return(t, "sd_noop")
        ELSE Enter(t, "sd_unsub", b, NoKey)
    /\ UNCHANGED <<bridgeVars, guardVars, engineVars, routerVars>>

\* :288-290  unsubscribeGlobal, setBridge(nullptr), setCallback(nullptr)
shutdown_unsub(t) ==
    /\ pc[t] = "sd_unsub"
    /\ UNCHANGED <<eventVars, valueVars, processVars>>
    /\ bl_subscribed' = FALSE
    /\ bl_bridge' = NoBridge
    /\ bl_callback' = NoSink
    /\ Goto(t, "sd_lock")
    /\ UNCHANGED <<cap, bridgeVars, guardVars, engineVars>>

\* :295  std::lock_guard lock(m_mutex)
shutdown_lock(t) ==
    /\ pc[t] = "sd_lock"
    /\ UNCHANGED <<eventVars, valueVars, processVars>>
    /\ m_mutex[br[t]] = NoThread
    /\ m_mutex' = [m_mutex EXCEPT ![br[t]] = t]
    /\ Goto(t, "sd_sweep")
    /\ UNCHANGED <<cap, m_initialized, m_configDir, m_callback, m_hubs,
                   m_fileLists, guardVars, engineVars, routerVars>>

\* shutdown()'s sweep with the table lock taken at function scope (held until
\* shutdown returns) instead of in its own block
shutdown_sweep_lockToEnd(t) ==
    /\ pc[t] = "sd_sweep"
    /\ UNCHANGED <<eventVars, valueVars, processVars>>
    /\ LET b == br[t]
           collected == {m_hubs[b][u].client : u \in DOMAIN m_hubs[b]} \ {NullClient}
       IN /\ liveListings' = liveListings \ {<<b, id>> : id \in m_fileLists[b]}
          /\ m_fileLists' = [m_fileLists EXCEPT ![b] = {}]
          /\ cap' = [cap EXCEPT ![t] = collected]
          /\ m_hubs' = [m_hubs EXCEPT ![b] = EmptyMap]
          /\ Goto(t, IF collected = {} THEN "sd_drain" ELSE "sd_release")
    /\ UNCHANGED <<m_initialized, m_mutex, m_configDir, m_callback, guardVars,
                   engineLive, luaSlot, workers, clients, routerVars>>

\* :297-310  under the lock: delete every listing and clear m_fileLists,
\*           collect every hub's non-null Client* and clear m_hubs; the
\*           lock's scope ends
shutdown_sweep(t) ==
    /\ pc[t] = "sd_sweep"
    /\ UNCHANGED <<eventVars, valueVars, processVars>>
    /\ LET b == br[t]
           collected == {m_hubs[b][u].client : u \in DOMAIN m_hubs[b]} \ {NullClient}
       IN /\ liveListings' = liveListings \ {<<b, id>> : id \in m_fileLists[b]}
          /\ m_fileLists' = [m_fileLists EXCEPT ![b] = {}]
          /\ cap' = [cap EXCEPT ![t] = collected]
          /\ m_hubs' = [m_hubs EXCEPT ![b] = EmptyMap]
          /\ m_mutex' = [m_mutex EXCEPT ![b] = NoThread]
          /\ Goto(t, IF collected = {} THEN "sd_drain" ELSE "sd_release")
    /\ UNCHANGED <<m_initialized, m_configDir, m_callback, guardVars,
                   engineLive, luaSlot, workers, clients, routerVars>>

\* :313-316  for each collected client: disconnect(true), putClient
shutdown_release(t) ==
    /\ pc[t] = "sd_release"
    /\ UNCHANGED <<eventVars, valueVars, processVars>>
    /\ LET h == MinOf(cap[t])
       IN /\ clients' = [clients EXCEPT ![h].released = TRUE]
          /\ cap' = [cap EXCEPT ![t] = cap[t] \ {h}]
          /\ Goto(t, IF cap[t] = {h} THEN "sd_drain" ELSE "sd_release")
    /\ UNCHANGED <<bridgeVars, guardVars, engineLive, luaSlot, workers,
                   liveListings, routerVars>>

\* :325-326  ConnectionManager::shutdown, BufferedSocket::waitShutdown:
\*           returns when every socket thread has exited
shutdown_drain(t) ==
    /\ pc[t] = "sd_drain"
    /\ UNCHANGED <<eventVars, valueVars, processVars>>
    /\ wpc = "idle"
    /\ \A w \in BurstWorkers : burst[w].pc = "idle"
    /\ workers' = {}
    /\ Goto(t, "sd_lua")
    /\ UNCHANGED <<cap, bridgeVars, guardVars, engineLive, luaSlot, clients,
                   liveListings, routerVars>>

\* :332-340  close the Lua state and clear the slot
shutdown_lua(t) ==
    /\ pc[t] = "sd_lua"
    /\ UNCHANGED <<eventVars, valueVars, processVars>>
    /\ luaSlot' = IF luaSlot \in {"open", "foreign"} /\ s_lua
                  THEN "null" ELSE luaSlot
    /\ Goto(t, "sd_dcpp")
    /\ UNCHANGED <<cap, bridgeVars, guardVars, engineLive, workers, clients,
                   liveListings, routerVars>>

\* :345  dcpp::shutdown: the singletons are destroyed
shutdown_dcpp(t) ==
    /\ pc[t] = "sd_dcpp"
    /\ UNCHANGED <<eventVars, valueVars, stored, s_lua>>
    /\ registry' = Defaults
    /\ engineLive' = 0
    /\ workers' = {}
    /\ Goto(t, "sd_glock")
    /\ UNCHANGED <<cap, bridgeVars, guardVars, luaSlot, clients,
                   liveListings, routerVars>>

\* :350  std::lock_guard glock(g_dcppStartupMutex)
shutdown_glock(t) ==
    /\ pc[t] = "sd_glock"
    /\ UNCHANGED <<eventVars, valueVars, processVars>>
    /\ g_dcppStartupMutex = NoThread
    /\ g_dcppStartupMutex' = t
    /\ Goto(t, "sd_gstore")
    /\ UNCHANGED <<cap, bridgeVars, g_dcppStarted, engineVars, routerVars>>

\* shutdown()'s last block without the store: the flag stays set
shutdown_gstore_keepsFlag(t) ==
    /\ pc[t] = "sd_gstore"
    /\ UNCHANGED <<eventVars, valueVars, processVars>>
    /\ g_dcppStartupMutex' = NoThread
    /\ Goto(t, "sd_done")
    /\ UNCHANGED <<cap, bridgeVars, g_dcppStarted, engineVars, routerVars>>

\* :351-352  g_dcppStarted.store(false); glock's scope ends
shutdown_gstore(t) ==
    /\ pc[t] = "sd_gstore"
    /\ UNCHANGED <<eventVars, valueVars, processVars>>
    /\ g_dcppStarted' = FALSE
    /\ g_dcppStartupMutex' = NoThread
    /\ Goto(t, "sd_done")
    /\ UNCHANGED <<cap, bridgeVars, engineVars, routerVars>>

\* :354  m_initialized.store(false)
shutdown_done(t) ==
    /\ pc[t] = "sd_done"
    /\ UNCHANGED <<eventVars, valueVars, processVars>>
    /\ m_initialized' = [m_initialized EXCEPT ![br[t]] = FALSE]
    /\ Return(t, "sd_done")
    /\ UNCHANGED <<m_mutex, m_configDir, m_callback, m_hubs, m_fileLists,
                   guardVars, engineVars, routerVars>>

shutdown(t, B) ==
    \/ shutdown_call(t, B)
    \/ shutdown_unsub(t)
    \/ shutdown_lock(t)
    \/ shutdown_sweep(t)
    \/ shutdown_release(t)
    \/ shutdown_drain(t)
    \/ shutdown_lua(t)
    \/ shutdown_dcpp(t)
    \/ shutdown_glock(t)
    \/ shutdown_gstore(t)
    \/ shutdown_done(t)

\* ------------------------------------------------------------------------
\* DCBridge::setCallback (bridge.cpp:365-369)
\* ------------------------------------------------------------------------
setCallback(t, B, S) ==
    /\ pc[t] = "idle"
    /\ UNCHANGED <<eventVars, valueVars, processVars>>
    /\ \E b \in B, cb \in S \cup {NoSink} :
        /\ m_mutex[b] = NoThread
        /\ m_callback' = [m_callback EXCEPT ![b] = cb]
        /\ bl_callback' = cb
    /\ Return(t, "cb_done")
    /\ UNCHANGED <<m_initialized, m_mutex, m_configDir, m_hubs, m_fileLists,
                   guardVars, engineVars, bl_bridge, bl_subscribed>>

\* ------------------------------------------------------------------------
\* DCBridge::connectHub (bridge.cpp:375-406)
\* ------------------------------------------------------------------------
\* :377  not initialized: return
connectHub_call(t, B, U) ==
    /\ pc[t] = "idle"
    /\ UNCHANGED <<eventVars, valueVars, processVars>>
    /\ \E b \in B, u \in U :
        IF ~m_initialized[b]
        THEN Return(t, "notinit")
        ELSE Enter(t, "ch_check", b, u)
    /\ UNCHANGED <<bridgeVars, guardVars, engineVars, routerVars>>

\* connectHub() without the "don't connect twice" test
connectHub_check_noDupTest(t) ==
    /\ pc[t] = "ch_check"
    /\ UNCHANGED <<eventVars, valueVars, processVars>>
    /\ m_mutex[br[t]] = NoThread
    /\ Goto(t, "ch_get")
    /\ UNCHANGED <<cap, bridgeVars, guardVars, engineVars, routerVars>>

\* :379-383  under the lock: "don't connect twice"
connectHub_check(t) ==
    /\ pc[t] = "ch_check"
    /\ UNCHANGED <<eventVars, valueVars, processVars>>
    /\ m_mutex[br[t]] = NoThread
    /\ IF key[t] \in DOMAIN m_hubs[br[t]]
       THEN Return(t, "ch_dup")
       ELSE Goto(t, "ch_get") /\ UNCHANGED cap
    /\ UNCHANGED <<bridgeVars, guardVars, engineVars, routerVars>>

\* :387-395  ClientManager::getClient (nullptr: return), setEncoding,
\*           BridgeListeners::attach (bridge_listeners.h:169-173)
connectHub_get(t) ==
    /\ pc[t] = "ch_get"
    /\ UNCHANGED <<eventVars, valueVars, processVars>>
    /\ IF Len(clients) >= MaxClients
       THEN /\ Return(t, "ch_null")
            /\ UNCHANGED <<clients, bl_bridge>>
       ELSE /\ clients' = Append(clients, [NewClient(key[t]) EXCEPT !.attached = TRUE])
            /\ cap' = [cap EXCEPT ![t] = {Len(clients) + 1}]
            /\ bl_bridge' = br[t]
            /\ Goto(t, "ch_connect")
    /\ UNCHANGED <<bridgeVars, guardVars, engineLive, luaSlot, workers,
                   liveListings, bl_callback, bl_subscribed>>

\* :397  client->connect(): the hub's socket thread starts
connectHub_connect(t) ==
    /\ pc[t] = "ch_connect"
    /\ UNCHANGED <<eventVars, valueVars, processVars>>
    /\ LET h == MinOf(cap[t])
       IN /\ clients' = [clients EXCEPT ![h].connected = TRUE]
          /\ workers' = workers \cup {h}
    /\ Goto(t, "ch_insert")
    /\ UNCHANGED <<cap, bridgeVars, guardVars, engineLive, luaSlot,
                   liveListings, routerVars>>

\* :399-405  under the lock: m_hubs[url] = HubData{client, url}
connectHub_insert(t) ==
    /\ pc[t] = "ch_insert"
    /\ UNCHANGED <<eventVars, valueVars, processVars>>
    /\ m_mutex[br[t]] = NoThread
    /\ m_hubs' = [m_hubs EXCEPT ![br[t]] =
                    MapPut(@, key[t], NewHubData(MinOf(cap[t]), key[t]))]
    /\ Return(t, "ch_done")
    /\ UNCHANGED <<m_initialized, m_mutex, m_configDir, m_callback, m_fileLists,
                   guardVars, engineVars, routerVars>>

connectHub(t, B, U) ==
    \/ connectHub_call(t, B, U)
    \/ connectHub_check(t)
    \/ connectHub_get(t)
    \/ connectHub_connect(t)
    \/ connectHub_insert(t)

\* ------------------------------------------------------------------------
\* DCBridge::disconnectHub (bridge.cpp:408-426)
\* ------------------------------------------------------------------------
\* :409  not initialized: return
disconnectHub_call(t, B, U) ==
    /\ pc[t] = "idle"
    /\ UNCHANGED <<eventVars, valueVars, processVars>>
    /\ \E b \in B, u \in U :
        IF ~m_initialized[b]
        THEN Return(t, "notinit")
        ELSE Enter(t, "dh_find", b, u)
    /\ UNCHANGED <<bridgeVars, guardVars, engineVars, routerVars>>

\* disconnectHub() looking the url up with m_hubs[url], which inserts an
\* empty HubData for an unknown url
disconnectHub_find_subscript(t) ==
    /\ pc[t] = "dh_find"
    /\ UNCHANGED <<eventVars, valueVars, processVars>>
    /\ m_mutex[br[t]] = NoThread
    /\ IF key[t] \notin DOMAIN m_hubs[br[t]]
       THEN /\ m_hubs' = [m_hubs EXCEPT ![br[t]] =
                            MapPut(@, key[t], NewHubData(NullClient, ""))]
            /\ Return(t, "dh_unknown")
       ELSE /\ m_hubs' = [m_hubs EXCEPT ![br[t]] = MapErase(@, key[t])]
            /\ IF m_hubs[br[t]][key[t]].client = NullClient
               THEN Return(t, "dh_done")
               ELSE /\ cap' = [cap EXCEPT ![t] = {m_hubs[br[t]][key[t]].client}]
                    /\ Goto(t, "dh_release")
    /\ UNCHANGED <<m_initialized, m_mutex, m_configDir, m_callback, m_fileLists,
                   guardVars, engineVars, routerVars>>

\* :411-421  under the lock: unknown url: return; else take the client and
\*           erase the entry; a null client needs no release
disconnectHub_find(t) ==
    /\ pc[t] = "dh_find"
    /\ UNCHANGED <<eventVars, valueVars, processVars>>
    /\ m_mutex[br[t]] = NoThread
    /\ IF key[t] \notin DOMAIN m_hubs[br[t]]
       THEN /\ Return(t, "dh_unknown")
            /\ UNCHANGED m_hubs
       ELSE /\ m_hubs' = [m_hubs EXCEPT ![br[t]] = MapErase(@, key[t])]
            /\ IF m_hubs[br[t]][key[t]].client = NullClient
               THEN Return(t, "dh_done")
               ELSE /\ cap' = [cap EXCEPT ![t] = {m_hubs[br[t]][key[t]].client}]
                    /\ Goto(t, "dh_release")
    /\ UNCHANGED <<m_initialized, m_mutex, m_configDir, m_callback, m_fileLists,
                   guardVars, engineVars, routerVars>>

\* :422-424  detach, client->disconnect(true), putClient
disconnectHub_release(t) ==
    /\ pc[t] = "dh_release"
    /\ UNCHANGED <<eventVars, valueVars, processVars>>
    /\ clients' = [clients EXCEPT ![MinOf(cap[t])].attached = FALSE,
                                  ![MinOf(cap[t])].released = TRUE]
    /\ Return(t, "dh_done")
    /\ UNCHANGED <<bridgeVars, guardVars, engineLive, luaSlot, workers,
                   liveListings, routerVars>>

disconnectHub(t, B, U) ==
    \/ disconnectHub_call(t, B, U)
    \/ disconnectHub_find(t)
    \/ disconnectHub_release(t)

\* ------------------------------------------------------------------------
\* DCBridge::openFileList (bridge.cpp:812-847)
\* ------------------------------------------------------------------------
\* :813  not initialized: return false
openFileList_call(t, B, L) ==
    /\ pc[t] = "idle"
    /\ UNCHANGED <<eventVars, valueVars, processVars>>
    /\ \E b \in B, id \in L :
        IF ~m_initialized[b]
        THEN Return(t, "notinit")
        ELSE Enter(t, "of_lock", b, id)
    /\ UNCHANGED <<bridgeVars, guardVars, engineVars, routerVars>>

\* :815-817  std::lock_guard lock(m_mutex), held until the function returns;
\*           already open: return true
openFileList_lock(t) ==
    /\ pc[t] = "of_lock"
    /\ UNCHANGED <<eventVars, valueVars, processVars>>
    /\ m_mutex[br[t]] = NoThread
    /\ IF key[t] \in m_fileLists[br[t]]
       THEN /\ Return(t, "of_already")
            /\ UNCHANGED m_mutex
       ELSE /\ m_mutex' = [m_mutex EXCEPT ![br[t]] = t]
            /\ Goto(t, "of_resolve")
            /\ UNCHANGED cap
    /\ UNCHANGED <<m_initialized, m_configDir, m_callback, m_hubs, m_fileLists,
                   guardVars, engineVars, routerVars>>

\* :819-835  DirectoryListing::getUserFromFilename (no user: return false),
\*           ClientManager::getHubUrls
openFileList_resolve(t) ==
    /\ pc[t] = "of_resolve"
    /\ UNCHANGED <<eventVars, valueVars, processVars>>
    /\ \E user \in BOOLEAN :
        IF user
        THEN /\ Goto(t, "of_load")
             /\ UNCHANGED <<cap, m_mutex>>
        ELSE /\ m_mutex' = [m_mutex EXCEPT ![br[t]] = NoThread]
             /\ Return(t, "of_nouser")
    /\ UNCHANGED <<m_initialized, m_configDir, m_callback, m_hubs, m_fileLists,
                   guardVars, engineVars, routerVars>>

\* the entry stored before loadFile and left there when loadFile throws
openFileList_load_storesFirst(t) ==
    /\ pc[t] = "of_load"
    /\ UNCHANGED <<eventVars, valueVars, processVars>>
    /\ \E loaded \in BOOLEAN :
        /\ m_fileLists' = [m_fileLists EXCEPT ![br[t]] = @ \cup {key[t]}]
        /\ liveListings' = liveListings \cup {<<br[t], key[t]>>}
        /\ Return(t, IF loaded THEN "of_ok" ELSE "of_loadfail")
    /\ m_mutex' = [m_mutex EXCEPT ![br[t]] = NoThread]
    /\ UNCHANGED <<m_initialized, m_configDir, m_callback, m_hubs,
                   guardVars, engineLive, luaSlot, workers, clients, routerVars>>

\* :837-846  new DirectoryListing, loadFile; stored on success, an Exception
\*           returns false
openFileList_load(t) ==
    /\ pc[t] = "of_load"
    /\ UNCHANGED <<eventVars, valueVars, processVars>>
    /\ \E loaded \in BOOLEAN :
        IF loaded
        THEN /\ m_fileLists' = [m_fileLists EXCEPT ![br[t]] = @ \cup {key[t]}]
             /\ liveListings' = liveListings \cup {<<br[t], key[t]>>}
             /\ Return(t, "of_ok")
        ELSE /\ UNCHANGED <<m_fileLists, liveListings>>
             /\ Return(t, "of_loadfail")
    /\ m_mutex' = [m_mutex EXCEPT ![br[t]] = NoThread]
    /\ UNCHANGED <<m_initialized, m_configDir, m_callback, m_hubs,
                   guardVars, engineLive, luaSlot, workers, clients, routerVars>>

openFileList(t, B, L) ==
    \/ openFileList_call(t, B, L)
    \/ openFileList_lock(t)
    \/ openFileList_resolve(t)
    \/ openFileList_load(t)

\* ------------------------------------------------------------------------
\* DCBridge::downloadDirFromList (bridge.cpp:989-1038)
\* ------------------------------------------------------------------------
\* :992  not initialized: return false
downloadDirFromList_call(t, B, L) ==
    /\ pc[t] = "idle"
    /\ UNCHANGED <<eventVars, valueVars, processVars>>
    /\ \E b \in B, id \in L :
        IF ~m_initialized[b]
        THEN Return(t, "notinit")
        ELSE Enter(t, "dd_lock", b, id)
    /\ UNCHANGED <<bridgeVars, guardVars, engineVars, routerVars>>

\* :994-1030  std::lock_guard lock(m_mutex), held until the function
\*            returns; list not open, null user or unmatched path segment:
\*            return false
downloadDirFromList_lock(t) ==
    /\ pc[t] = "dd_lock"
    /\ UNCHANGED <<eventVars, valueVars, processVars>>
    /\ m_mutex[br[t]] = NoThread
    /\ \E resolved \in BOOLEAN :
        IF key[t] \notin m_fileLists[br[t]]
        THEN /\ Return(t, "dd_notopen")
             /\ UNCHANGED m_mutex
        ELSE IF ~resolved
             THEN /\ Return(t, "dd_fail")
                  /\ UNCHANGED m_mutex
             ELSE /\ m_mutex' = [m_mutex EXCEPT ![br[t]] = t]
                  /\ Goto(t, "dd_download")
                  /\ UNCHANGED cap
    /\ UNCHANGED <<m_initialized, m_configDir, m_callback, m_hubs, m_fileLists,
                   guardVars, engineVars, routerVars>>

\* :1032-1037  listing->download(dir, target, false); an Exception returns
\*             false
downloadDirFromList_download(t) ==
    /\ pc[t] = "dd_download"
    /\ UNCHANGED <<eventVars, valueVars, processVars>>
    /\ \E queued \in BOOLEAN :
        Return(t, IF queued THEN "dd_ok" ELSE "dd_fail")
    /\ m_mutex' = [m_mutex EXCEPT ![br[t]] = NoThread]
    /\ UNCHANGED <<m_initialized, m_configDir, m_callback, m_hubs, m_fileLists,
                   guardVars, engineVars, routerVars>>

downloadDirFromList(t, B, L) ==
    \/ downloadDirFromList_call(t, B, L)
    \/ downloadDirFromList_lock(t)
    \/ downloadDirFromList_download(t)

\* ------------------------------------------------------------------------
\* DCBridge::closeFileList (bridge.cpp:1040-1048)
\* ------------------------------------------------------------------------
closeFileList(t, B, L) ==
    /\ pc[t] = "idle"
    /\ UNCHANGED <<eventVars, valueVars, processVars>>
    /\ \E b \in B, id \in L :
        /\ m_mutex[b] = NoThread
        /\ m_fileLists' = [m_fileLists EXCEPT ![b] = @ \ {id}]
        /\ liveListings' = IF id \in m_fileLists[b]
                           THEN liveListings \ {<<b, id>>}
                           ELSE liveListings
    /\ Return(t, "cl_done")
    /\ UNCHANGED <<m_initialized, m_mutex, m_configDir, m_callback, m_hubs,
                   guardVars, engineLive, luaSlot, workers, clients, routerVars>>

\* ------------------------------------------------------------------------
\* DCBridge::closeAllFileLists (bridge.cpp:1050-1057): under the table lock,
\* every listing is deleted and the table cleared; no test of m_initialized
\* ------------------------------------------------------------------------
closeAllFileLists(t, B) ==
    /\ pc[t] = "idle"
    /\ UNCHANGED <<eventVars, valueVars, processVars>>
    /\ \E b \in B :
        /\ m_mutex[b] = NoThread
        /\ m_fileLists' = [m_fileLists EXCEPT ![b] = {}]
        /\ liveListings' = liveListings \ {<<b, id>> : id \in m_fileLists[b]}
    /\ Return(t, "ca_done")
    /\ UNCHANGED <<m_initialized, m_mutex, m_configDir, m_callback, m_hubs,
                   guardVars, engineLive, luaSlot, workers, clients, routerVars>>

\* ------------------------------------------------------------------------
\* The other control operations of the facade (bridge.cpp:561-1359), by
\* what decides their outcome: the test of m_initialized that opens them
\* (guard: "fail" returns the failure value, "throw" throws LuaError, "none"
\* there is no test), whether they call an engine singleton (engine) and
\* whether that call sits in a try block catching dcpp::Exception (catches)
\* ------------------------------------------------------------------------
Op(name, guard, engine, catches) ==
    [name |-> name, guard |-> guard, engine |-> engine, catches |-> catches]

ControlOps ==
    { Op("search", "fail", TRUE, FALSE),             \* :561-591
      Op("addToQueue", "fail", TRUE, TRUE),          \* :637-655
      Op("removeFromQueue", "fail", TRUE, TRUE),     \* :695-700
      Op("moveQueueItem", "fail", TRUE, TRUE),       \* :702-708
      Op("setPriority", "fail", TRUE, TRUE),         \* :710-717
      Op("listQueue", "fail", TRUE, FALSE),          \* :719-741
      Op("clearQueue", "fail", TRUE, FALSE),         \* :743-756
      Op("addShareDir", "fail", TRUE, TRUE),         \* :1063-1082
      Op("removeShareDir", "fail", TRUE, TRUE),      \* :1084-1092
      Op("renameShareDir", "fail", TRUE, TRUE),      \* :1094-1103
      Op("listShare", "fail", TRUE, FALSE),          \* :1105-1117
      Op("refreshShare", "fail", TRUE, FALSE),       \* :1119-1123
      Op("getShareSize", "fail", TRUE, FALSE),       \* :1125-1128
      Op("getSharedFileCount", "fail", TRUE, FALSE), \* :1130-1133
      Op("getSetting", "fail", TRUE, FALSE),         \* :1183-1204
      Op("setSetting", "fail", TRUE, FALSE),         \* :1206-1227
      Op("reloadConfig", "fail", TRUE, FALSE),       \* :1229-1232
      Op("luaIsAvailable", "none", FALSE, FALSE),    \* :1238-1245
      Op("luaEval", "throw", FALSE, FALSE),          \* :1247-1280
      Op("luaEvalFile", "throw", FALSE, FALSE),      \* :1282-1315
      Op("getVersion", "none", FALSE, FALSE),        \* :1348-1350
      Op("startNetworking", "none", TRUE, FALSE) }   \* :1356-1359

OpNamed(name) == CHOOSE o \in ControlOps : o.name = name
ScriptOps == {"luaEval", "luaEvalFile"}

\* the opening statement of the operation
control_call(t, B, Ops) ==
    /\ pc[t] = "idle"
    /\ UNCHANGED <<eventVars, valueVars, processVars>>
    /\ \E b \in B, o \in Ops :
        IF ~m_initialized[b] /\ o.guard = "fail"
        THEN Return(t, "notinit")
        ELSE IF ~m_initialized[b] /\ o.guard = "throw"
        THEN Return(t, "op_throw_notinit")
        ELSE IF o.engine
        THEN Enter(t, "op_engine", b, o.name)
        ELSE IF o.name \in ScriptOps
        THEN Enter(t, "op_script", b, o.name)
        ELSE Return(t, "op_done")
    /\ UNCHANGED <<bridgeVars, guardVars, engineVars, routerVars>>

\* the call on the engine singleton: it returns, or raises a dcpp::Exception
\* that the operation catches (failure value) or lets escape to the host;
\* with no engine constructed getInstance() is null and the call is
\* undefined: the process crashes or the call appears to return
control_engine(t) ==
    /\ pc[t] = "op_engine"
    /\ UNCHANGED <<eventVars, valueVars, processVars>>
    /\ IF engineLive = 0
       THEN \E outcome \in {"op_crash", "op_done"} : Return(t, outcome)
       ELSE \E raised \in BOOLEAN :
              Return(t, IF ~raised THEN "op_done"
                        ELSE IF OpNamed(key[t]).catches THEN "op_failed"
                        ELSE "op_escaped")
    /\ UNCHANGED <<bridgeVars, guardVars, engineVars, routerVars>>

\* :1250-1279, 1285-1314  the evaluation: no state in the slot throws
\*           LuaNotAvailableError; a load or runtime error throws
control_script(t) ==
    /\ pc[t] = "op_script"
    /\ UNCHANGED <<eventVars, valueVars, processVars>>
    /\ IF luaSlot = "null"
       THEN Return(t, "op_throw_script")
       ELSE \E outcome \in {"op_done", "op_throw_script"} : Return(t, outcome)
    /\ UNCHANGED <<bridgeVars, guardVars, engineVars, routerVars>>

control(t, B, Ops) ==
    \/ control_call(t, B, Ops)
    \/ control_engine(t)
    \/ control_script(t)

\* ------------------------------------------------------------------------
\* DCBridge::addMagnet (bridge.cpp:657-693) and DCBridge::addToQueue
\* (bridge.cpp:637-655).  Text is a sequence of characters; positions are
\* counted from 1 here (from 0 in the code) and 0 stands for npos.
\* ------------------------------------------------------------------------
XtMarker == <<"x", "t", "=", "u", "r", "n", ":", "t", "r", "e", "e", ":", "t", "i", "g", "e", "r", ":">>
XlKey == <<"x", "l", "=">>
DnKey == <<"d", "n", "=">>
Amp == "&"
XT_SKIP == 18
TTH_LEN == 39

\* std::string::find(pat, from): the first position at or after from where
\* pat occurs
Find(s, pat, from) ==
    LET hits == {i \in from..(Len(s) - Len(pat) + 1) :
                    SubSeq(s, i, i + Len(pat) - 1) = pat}
    IN  IF hits = {} THEN 0 ELSE MinOf(hits)

\* std::string::substr(pos, n): at most n characters, fewer at the end
Substr(s, pos, n) ==
    SubSeq(s, pos, IF pos + n - 1 > Len(s) THEN Len(s) ELSE pos + n - 1)

\* the rest of the text from pos up to the next '&' (or to the end)
UpToAmp(s, pos, from) ==
    LET end == Find(s, <<Amp>>, from)
    IN  IF end = 0 THEN SubSeq(s, pos, Len(s)) ELSE SubSeq(s, pos, end - 1)

DigitChars == <<"0", "1", "2", "3", "4", "5", "6", "7", "8", "9">>
DigitValue(c) == (CHOOSE i \in 1..10 : DigitChars[i] = c) - 1
IsDigit(c) == \E i \in 1..10 : DigitChars[i] = c

\* Util::toInt64: the base-10 value of the leading digits, 0 when none
RECURSIVE toInt64From(_, _, _)
toInt64From(s, i, acc) ==
    IF i > Len(s) \/ ~IsDigit(s[i]) THEN acc
    ELSE toInt64From(s, i + 1, acc * 10 + DigitValue(s[i]))

toInt64(s) == toInt64From(s, 1, 0)

\* :662-687  the locals name, tth and size after the extraction; found is
\*           false when the xt marker is not in the link
addMagnet_parse(magnetLink) ==
    LET xtPos == Find(magnetLink, XtMarker, 1)
        xlPos == Find(magnetLink, XlKey, 1)
        dnPos == Find(magnetLink, DnKey, 1)
        tth   == Substr(magnetLink, xtPos + XT_SKIP, TTH_LEN)
        size  == IF xlPos = 0 THEN 0
                 ELSE toInt64(UpToAmp(magnetLink, xlPos + 3, xlPos))
        name  == IF dnPos = 0 THEN <<>>
                 ELSE UpToAmp(magnetLink, dnPos + 3, dnPos)
    IN  IF xtPos = 0
        THEN [found |-> FALSE, tth |-> <<>>, size |-> 0, name |-> <<>>]
        ELSE [found |-> TRUE, tth |-> tth, size |-> size,
              name |-> IF name = <<>> THEN tth ELSE name]

\* a link as the host writes it: the scheme and the parameters in the
\* given order, joined by '&'
Scheme == <<"m", "a", "g", "n", "e", "t", ":", "?">>
KeyText(k) == IF k = "xt" THEN XtMarker ELSE IF k = "xl" THEN XlKey ELSE DnKey

RECURSIVE RenderFrom(_, _)
RenderFrom(ps, i) ==
    IF i > Len(ps) THEN <<>>
    ELSE (IF i > 1 THEN <<Amp>> ELSE <<>>) \o KeyText(ps[i].k) \o ps[i].v
         \o RenderFrom(ps, i + 1)

Render(ps) == Scheme \o RenderFrom(ps, 1)

\* :659  not initialized: return false
\* :667  no xt marker: return false; otherwise go on to addToQueue
addMagnet_call(t, B) ==
    /\ pc[t] = "idle"
    /\ callArg # <<>>
    /\ UNCHANGED <<eventVars, processVars>>
    /\ \E b \in B :
        IF ~m_initialized[b]
        THEN /\ Return(t, "notinit")
             /\ callOut' = <<FALSE>>
             /\ UNCHANGED am_local
        ELSE LET p == addMagnet_parse(Render(callArg))
             IN  IF ~p.found
                 THEN /\ Return(t, "am_false")
                      /\ callOut' = <<FALSE>>
                      /\ am_local' = <<p>>
                 ELSE /\ Enter(t, "am_add", b, "addMagnet")
                      /\ callOut' = <<>>
                      /\ am_local' = <<p>>
    /\ UNCHANGED <<callArg, queue>>
    /\ UNCHANGED <<bridgeVars, guardVars, engineVars, routerVars>>

\* :692, 643-654  addToQueue: QueueManager::add admits the item, or raises a
\*           dcpp::Exception that is caught and turned into false
addMagnet_add(t) ==
    /\ pc[t] = "am_add"
    /\ UNCHANGED <<eventVars, processVars>>
    /\ \E raised \in BOOLEAN :
        IF raised
        THEN /\ Return(t, "am_false")
             /\ callOut' = <<FALSE>>
             /\ UNCHANGED queue
        ELSE /\ Return(t, "am_true")
             /\ callOut' = <<TRUE>>
             /\ queue' = queue \cup {[tth |-> am_local[1].tth,
                                      size |-> am_local[1].size,
                                      name |-> am_local[1].name]}
    /\ UNCHANGED <<callArg, am_local>>
    /\ UNCHANGED <<bridgeVars, guardVars, engineVars, routerVars>>

addMagnet(t, B) ==
    \/ addMagnet_call(t, B)
    \/ addMagnet_add(t)

\* ------------------------------------------------------------------------
\* DCBridge::browseFileList (bridge.cpp:849-899).  An open listing holds a
\* directory tree; node 0 is its root.  Names are sequences of characters.
\* ------------------------------------------------------------------------
Root == 0
Slash == "/"

Directories ==
    { [id |-> 1, name |-> <<"a">>, parent |-> 0],
      [id |-> 2, name |-> <<"A">>, parent |-> 0],
      [id |-> 3, name |-> <<"a", "b">>, parent |-> 0],
      [id |-> 4, name |-> <<"c">>, parent |-> 1],
      [id |-> 5, name |-> <<"a">>, parent |-> 3] }

Files ==
    { [name |-> <<"f">>, parent |-> 0],
      [name |-> <<"g">>, parent |-> 1],
      [name |-> <<"h">>, parent |-> 4],
      [name |-> <<"k">>, parent |-> 5] }

\* StringTokenizer<string>(directory, '/'): the pieces between the
\* separators, empty ones included, and the rest after the last one if any
RECURSIVE Tokens(_, _)
Tokens(s, j) ==
    LET i == Find(s, <<Slash>>, j)
    IN  IF i # 0 THEN <<SubSeq(s, j, i - 1)>> \o Tokens(s, i + 1)
        ELSE IF j <= Len(s) THEN <<SubSeq(s, j, Len(s))>>
        ELSE <<>>

\* the walk going on from the same directory when a token matches nothing
RECURSIVE Navigate_skipsUnmatched(_, _, _)
Navigate_skipsUnmatched(dir, toks, i) ==
    IF i > Len(toks) THEN <<dir>>
    ELSE LET hit == {d \in Directories : d.parent = dir /\ d.name = toks[i]}
         IN  IF hit = {} THEN Navigate_skipsUnmatched(dir, toks, i + 1)
             ELSE Navigate_skipsUnmatched((CHOOSE d \in hit : TRUE).id, toks, i + 1)

\* :864-876  the walk from dir over the tokens from the i-th on: <<node>>,
\*           or <<>> when a token matches no subdirectory
RECURSIVE Navigate(_, _, _)
Navigate(dir, toks, i) ==
    IF i > Len(toks) THEN <<dir>>
    ELSE IF toks[i] = <<>> THEN Navigate(dir, toks, i + 1)
    ELSE LET hit == {d \in Directories : d.parent = dir /\ d.name = toks[i]}
         IN  IF hit = {} THEN <<>>
             ELSE Navigate((CHOOSE d \in hit : TRUE).id, toks, i + 1)

\* :879-897  one entry per subdirectory and per file of dir (the vector is
\*           taken as the set of its entries)
ListEntries(dir) ==
    {[name |-> d.name, isDirectory |-> TRUE] : d \in {x \in Directories : x.parent = dir}}
    \cup {[name |-> f.name, isDirectory |-> FALSE] : f \in {x \in Files : x.parent = dir}}

\* :853  not initialized: return the empty result
browseFileList_call(t, B) ==
    /\ pc[t] = "idle"
    /\ callArg # <<>>
    /\ UNCHANGED <<eventVars, processVars>>
    /\ \E b \in B :
        IF ~m_initialized[b]
        THEN /\ Return(t, "notinit")
             /\ callOut' = <<{}>>
        ELSE /\ Enter(t, "bf_lock", b, callArg[1])
             /\ callOut' = <<>>
    /\ UNCHANGED <<callArg, am_local, queue>>
    /\ UNCHANGED <<bridgeVars, guardVars, engineVars, routerVars>>

\* :855  std::lock_guard<std::mutex> lock(m_mutex)
browseFileList_lock(t) ==
    /\ pc[t] = "bf_lock"
    /\ UNCHANGED <<eventVars, valueVars, processVars>>
    /\ m_mutex[br[t]] = NoThread
    /\ m_mutex' = [m_mutex EXCEPT ![br[t]] = t]
    /\ Goto(t, "bf_walk")
    /\ UNCHANGED <<cap, m_initialized, m_configDir, m_callback, m_hubs,
                   m_fileLists, guardVars, engineVars, routerVars>>

\* :857-898  look the id up, walk to the directory, list it; the lock is
\*           released on every return
browseFileList_walk(t) ==
    /\ pc[t] = "bf_walk"
    /\ UNCHANGED <<eventVars, processVars>>
    /\ LET directory == callArg[2]
           dir == IF directory # <<Slash>> /\ directory # <<>>
                  THEN Navigate(Root, Tokens(directory, 1), 1)
                  ELSE <<Root>>
       IN  callOut' = IF key[t] \notin m_fileLists[br[t]] \/ dir = <<>>
                      THEN <<{}>>
                      ELSE <<ListEntries(dir[1])>>
    /\ m_mutex' = [m_mutex EXCEPT ![br[t]] = NoThread]
    /\ Return(t, "bf_done")
    /\ UNCHANGED <<callArg, am_local, queue>>
    /\ UNCHANGED <<m_initialized, m_configDir, m_callback, m_hubs,
                   m_fileLists, guardVars, engineVars, routerVars>>

browseFileList(t, B) ==
    \/ browseFileList_call(t, B)
    \/ browseFileList_lock(t)
    \/ browseFileList_walk(t)

\* ------------------------------------------------------------------------
\* BridgeListeners: listener events on an engine worker thread
\* (bridge_listeners.h:184-278, bridge_listeners.cpp:11-34)
\* ------------------------------------------------------------------------
hostVars == <<pc, br, key, cap, ret>>

\* client h has a running socket thread and the router is registered on it
Fires(h) == h \in workers /\ clients[h].attached /\ ~clients[h].released

\* bridge_listeners.h:226-234  ClientListener::Message from client h: the
\*           handler reads url, nick and text; at most N lines are sent
on_Message_fire(N) ==
    /\ wpc = "idle"
    /\ lineNo < N
    /\ \E h \in DOMAIN clients :
        /\ Fires(h)
        /\ wev' = [NoEvent EXCEPT !.kind = "Message", !.h = h,
                                  !.url = clients[h].url, !.line = lineNo + 1]
    /\ lineNo' = lineNo + 1
    /\ wpc' = "msg_lock"
    /\ UNCHANGED <<hostVars, valueVars, processVars, burst, bridgeVars, guardVars, engineVars, routerVars>>

\* bridge_listeners.cpp:14-16  stashChat: no bridge: return; else
\*           lock_guard lk(m_bridge->m_mutex)
stashChat_lock ==
    /\ wpc = "msg_lock"
    /\ IF bl_bridge = NoBridge
       THEN /\ wpc' = "msg_getcb"
            /\ UNCHANGED <<wev, m_mutex>>
       ELSE /\ m_mutex[bl_bridge] = NoThread
            /\ m_mutex' = [m_mutex EXCEPT ![bl_bridge] = Worker]
            /\ wev' = [wev EXCEPT !.b = bl_bridge]
            /\ wpc' = "msg_stash"
    /\ UNCHANGED <<hostVars, valueVars, processVars, burst, m_initialized, m_configDir, m_callback, m_hubs,
                   m_fileLists, guardVars, engineVars, routerVars, lineNo>>

\* stashChat trimming with the test "size() >= MAX_HISTORY"
stashChat_push_trimsAtLimit ==
    /\ wpc = "msg_stash"
    /\ IF HasHub(wev.b, wev.url)
       THEN /\ m_hubs' = [m_hubs EXCEPT ![wev.b][wev.url].chatHistory =
                            IF Len(@) + 1 >= MAX_HISTORY
                            THEN Tail(Append(@, wev.line))
                            ELSE Append(@, wev.line)]
            /\ wev' = [wev EXCEPT !.committed = TRUE]
       ELSE UNCHANGED <<m_hubs, wev>>
    /\ m_mutex' = [m_mutex EXCEPT ![wev.b] = NoThread]
    /\ wpc' = "msg_getcb"
    /\ UNCHANGED <<hostVars, valueVars, processVars, burst, m_initialized, m_configDir, m_callback,
                   m_fileLists, guardVars, engineVars, routerVars, lineNo>>

\* bridge_listeners.cpp:17-34  findHub (unknown url: return); push_back,
\*           trim to MAX_HISTORY; the lock's scope ends
stashChat_push ==
    /\ wpc = "msg_stash"
    /\ IF HasHub(wev.b, wev.url)
       THEN /\ m_hubs' = [m_hubs EXCEPT ![wev.b][wev.url].chatHistory =
                            PushChat(@, wev.line)]
            /\ wev' = [wev EXCEPT !.committed = TRUE]
       ELSE UNCHANGED <<m_hubs, wev>>
    /\ m_mutex' = [m_mutex EXCEPT ![wev.b] = NoThread]
    /\ wpc' = "msg_getcb"
    /\ UNCHANGED <<hostVars, valueVars, processVars, burst, m_initialized, m_configDir, m_callback,
                   m_fileLists, guardVars, engineVars, routerVars, lineNo>>

\* bridge_listeners.h:238-248  getCallback (437-440); no sink: return; else
\*           cb->onChatMessage / onPrivateMessage is entered
on_Message_getcb ==
    /\ wpc = "msg_getcb"
    /\ IF bl_callback = NoSink
       THEN wpc' = "idle" /\ wev' = NoEvent
       ELSE wpc' = "msg_sink" /\ wev' = [wev EXCEPT !.cb = bl_callback]
    /\ UNCHANGED <<hostVars, valueVars, processVars, burst, bridgeVars, guardVars, engineVars, routerVars, lineNo>>

\* bridge_listeners.h:189-198  ClientListener::Connected / Failed from
\*           client h
on_HubState_fire ==
    /\ wpc = "idle"
    /\ \E h \in DOMAIN clients, k \in {"Connected", "Failed"} :
        /\ Fires(h)
        /\ wev' = [NoEvent EXCEPT !.kind = k, !.h = h, !.url = clients[h].url]
    /\ wpc' = "hub_getcb"
    /\ UNCHANGED <<hostVars, valueVars, processVars, burst, bridgeVars, guardVars, engineVars, routerVars, lineNo>>

\* bridge_listeners.h:190-191, 196-197  getCallback; a sink: onHubConnected /
\*           onHubDisconnected is entered
on_HubState_getcb ==
    /\ wpc = "hub_getcb"
    /\ IF bl_callback = NoSink
       THEN wpc' = "idle" /\ wev' = NoEvent
       ELSE wpc' = "hub_sink" /\ wev' = [wev EXCEPT !.cb = bl_callback]
    /\ UNCHANGED <<hostVars, valueVars, processVars, burst, bridgeVars, guardVars, engineVars, routerVars, lineNo>>

\* inside the sink callback, on the worker thread: the host's sink calls
\* getChatHistory(url) on its DCBridge (bridge.cpp:492-509), which takes
\* m_mutex once the instance is seen initialized
sink_getChatHistory(B) ==
    /\ wpc = "msg_sink"
    /\ \E b \in B :
        /\ m_initialized[b] => m_mutex[b] = NoThread
        /\ wev' = [wev EXCEPT !.got = getChatHistory(b, wev.url)]
    /\ wpc' = "msg_insink"
    /\ UNCHANGED <<hostVars, valueVars, processVars, burst, bridgeVars, guardVars, engineVars, routerVars, lineNo>>

\* the sink callback returns and the handler with it
sink_return ==
    /\ wpc \in {"msg_sink", "msg_insink", "hub_sink"}
    /\ wpc' = "idle"
    /\ wev' = NoEvent
    /\ UNCHANGED <<hostVars, valueVars, processVars, burst, bridgeVars, guardVars, engineVars, routerVars, lineNo>>

\* ------------------------------------------------------------------------
\* A burst: several worker threads dispatching ClientListener::Message at
\* the same time (bridge_listeners.h:226-248, bridge_listeners.cpp:11-34).
\* A worker is inside its hub's listener dispatch, holding that hub's
\* engine-side lock, from the fire until its handler returns.
\* ------------------------------------------------------------------------
InDispatch(h) == \E w \in BurstWorkers : burst[w].pc # "idle" /\ burst[w].h = h

burst_fire(w) ==
    /\ burst[w].pc = "idle"
    /\ burst[w].n < BurstEvents
    /\ \E h \in DOMAIN clients :
        /\ Fires(h)
        /\ ~InDispatch(h)
        /\ burst' = [burst EXCEPT ![w] = [IdleBurst EXCEPT !.pc = "b_check",
                                              !.h = h, !.n = burst[w].n + 1]]
    /\ UNCHANGED <<hostVars, valueVars, processVars, wpc, wev, lineNo, bridgeVars, guardVars,
                   engineVars, routerVars>>

\* bridge_listeners.cpp:14  stashChat: if (!m_bridge) return.  m_bridge is
\*           a plain pointer read here without the router's mutex
burst_check(w) ==
    /\ burst[w].pc = "b_check"
    /\ burst' = [burst EXCEPT ![w].pc = IF bl_bridge = NoBridge THEN "b_getcb"
                                        ELSE "b_lock",
                              ![w].b = bl_bridge]
    /\ UNCHANGED <<hostVars, valueVars, processVars, wpc, wev, lineNo, bridgeVars, guardVars,
                   engineVars, routerVars>>

\* bridge_listeners.cpp:16  lock_guard lk(m_bridge->m_mutex): m_bridge is
\*           read again, racing with setBridge; the value tested at :14 is
\*           reused or the pointer is loaded afresh, and a null pointer is
\*           dereferenced then
burst_lock(w) ==
    /\ burst[w].pc = "b_lock"
    /\ \E seen \in {burst[w].b, bl_bridge} :
        IF seen = NoBridge
        THEN /\ burst' = [burst EXCEPT ![w].pc = "crashed"]
             /\ UNCHANGED m_mutex
        ELSE /\ m_mutex[seen] = NoThread
             /\ m_mutex' = [m_mutex EXCEPT ![seen] = Worker]
             /\ burst' = [burst EXCEPT ![w].pc = "b_stash", ![w].b = seen]
    /\ UNCHANGED <<hostVars, valueVars, processVars, wpc, wev, lineNo, m_initialized,
                   m_configDir, m_callback, m_hubs, m_fileLists, guardVars,
                   engineVars, routerVars>>

\* bridge_listeners.cpp:17-34  m_bridge->findHub (m_bridge read once more;
\*           unknown url: return); push_back, trim; the lock's scope ends
burst_stash(w) ==
    /\ burst[w].pc = "b_stash"
    /\ \E seen \in {burst[w].b, bl_bridge} :
        IF seen = NoBridge
        THEN /\ burst' = [burst EXCEPT ![w].pc = "crashed"]
             /\ UNCHANGED <<m_hubs, m_mutex>>
        ELSE LET b == burst[w].b
                 url == clients[burst[w].h].url
             IN  /\ m_hubs' = IF HasHub(seen, url)
                              THEN [m_hubs EXCEPT ![seen][url].chatHistory =
                                                      PushChat(@, w)]
                              ELSE m_hubs
                 /\ m_mutex' = [m_mutex EXCEPT ![b] = NoThread]
                 /\ burst' = [burst EXCEPT ![w].pc = "b_getcb"]
    /\ UNCHANGED <<hostVars, valueVars, processVars, wpc, wev, lineNo, m_initialized,
                   m_configDir, m_callback, m_fileLists, guardVars,
                   engineVars, routerVars>>

\* bridge_listeners.h:238-239, 437-440  auto cb = getCallback(): the
\*           router's pointer is copied under the router's mutex; no sink:
\*           the handler returns
burst_getcb(w) ==
    /\ burst[w].pc = "b_getcb"
    /\ burst' = [burst EXCEPT ![w] = IF bl_callback = NoSink
                                     THEN [IdleBurst EXCEPT !.n = burst[w].n]
                                     ELSE [@ EXCEPT !.pc = "b_call",
                                                    !.cb = bl_callback]]
    /\ UNCHANGED <<hostVars, valueVars, processVars, wpc, wev, lineNo, bridgeVars, guardVars,
                   engineVars, routerVars>>

\* bridge_listeners.h:241-247  cb->onPrivateMessage / cb->onChatMessage is
\*           entered through the copied pointer
burst_invoke(w) ==
    /\ burst[w].pc = "b_call"
    /\ burst' = [burst EXCEPT ![w].pc = "b_sink"]
    /\ UNCHANGED <<hostVars, valueVars, processVars, wpc, wev, lineNo, bridgeVars, guardVars,
                   engineVars, routerVars>>

\* the sink callback returns and the handler with it
burst_return(w) ==
    /\ burst[w].pc = "b_sink"
    /\ burst' = [burst EXCEPT ![w] = [IdleBurst EXCEPT !.n = burst[w].n]]
    /\ UNCHANGED <<hostVars, valueVars, processVars, wpc, wev, lineNo, bridgeVars, guardVars,
                   engineVars, routerVars>>

\* the steps a worker takes once it has fired
burst_handle(w) ==
    \/ burst_check(w)
    \/ burst_lock(w)
    \/ burst_stash(w)
    \/ burst_getcb(w)
    \/ burst_invoke(w)
    \/ burst_return(w)

\* ------------------------------------------------------------------------
\* The program: host threads interleave at the steps above
\* ------------------------------------------------------------------------
\* Two host threads on one instance: lifecycle and sessions
Step(t) ==
    \/ initialize(t, {"b1"}, {"cfg"})
    \/ shutdown(t, {"b1"})
    \/ connectHub(t, {"b1"}, {"u1"})
    \/ disconnectHub(t, {"b1"}, {"u1"})

Next == \E t \in Threads : Step(t)

Spec == Init /\ [][Next]_vars

\* Two instances, each driven by a host thread of its own
StepOwn(t, b) ==
    \/ initialize(t, {b}, {"cfg"})
    \/ shutdown(t, {b})
    \/ connectHub(t, {b}, {"u1"})

NextTwo == StepOwn("t1", "b1") \/ StepOwn("t2", "b2")

SpecTwo == Init /\ [][NextTwo]_vars

\* One host thread making one call after another: every operation on the
\* first instance, the lifecycle of both
StepSeq(t) ==
    \/ initialize(t, Bridges, CfgArgs)
    \/ shutdown(t, Bridges)
    \/ setCallback(t, {"b1"}, Sinks)
    \/ connectHub(t, {"b1"}, Urls)
    \/ disconnectHub(t, {"b1"}, Urls)
    \/ openFileList(t, {"b1"}, ListIds)
    \/ downloadDirFromList(t, {"b1"}, ListIds)
    \/ closeFileList(t, {"b1"}, ListIds)

NextSeq == StepSeq("t1")

SpecSeq == Init /\ [][NextSeq]_vars

\* One host thread on one instance and the worker thread of its sessions
NextEvents ==
    \/ initialize("t1", {"b1"}, {"cfg"})
    \/ shutdown("t1", {"b1"})
    \/ setCallback("t1", {"b1"}, Sinks)
    \/ connectHub("t1", {"b1"}, {"u1"})
    \/ disconnectHub("t1", {"b1"}, {"u1"})
    \/ on_Message_fire(MaxLines)
    \/ stashChat_lock
    \/ stashChat_push
    \/ on_Message_getcb
    \/ on_HubState_fire
    \/ on_HubState_getcb
    \/ sink_getChatHistory({"b1"})
    \/ sink_return

SpecEvents == Init /\ [][NextEvents]_vars

\* A session receiving more chat lines than its history holds.  The run
\* starts where b1.initialize("cfg") and b1.connectHub("u1") have returned.
InitChat ==
    /\ pc = [t \in Threads |-> "idle"]
    /\ br = [t \in Threads |-> NoBridge]
    /\ key = [t \in Threads |-> NoKey]
    /\ cap = [t \in Threads |-> {}]
    /\ ret = [t \in Threads |-> IF t = "t1" THEN "ch_done" ELSE "none"]
    /\ m_initialized = [b \in Bridges |-> b = "b1"]
    /\ m_mutex = [b \in Bridges |-> NoThread]
    /\ m_configDir = [b \in Bridges |-> IF b = "b1" THEN ResolveCfgDir("cfg") ELSE ""]
    /\ m_callback = [b \in Bridges |-> NoSink]
    /\ m_hubs = [b \in Bridges |->
                   IF b = "b1" THEN MapPut(EmptyMap, "u1", NewHubData(1, "u1"))
                   ELSE EmptyMap]
    /\ m_fileLists = [b \in Bridges |-> {}]
    /\ g_dcppStarted = TRUE
    /\ g_dcppStartupMutex = NoThread
    /\ engineLive = 1
    /\ luaSlot = "open"
    /\ workers = {1}
    /\ clients = <<[NewClient("u1") EXCEPT !.attached = TRUE, !.connected = TRUE]>>
    /\ liveListings = {}
    /\ bl_bridge = "b1"
    /\ bl_callback = NoSink
    /\ bl_subscribed = TRUE
    /\ wpc = "idle"
    /\ wev = NoEvent
    /\ lineNo = 0
    /\ burst = [w \in BurstWorkers |-> IdleBurst]
    /\ callArg = <<>>
    /\ am_local = <<>>
    /\ callOut = <<>>
    /\ queue = {}
    /\ registry = Defaults
    /\ stored = Defaults
    /\ s_lua = TRUE

NextChat ==
    \/ on_Message_fire(ChatLines)
    \/ stashChat_lock
    \/ stashChat_push
    \/ on_Message_getcb

SpecChat == InitChat /\ [][NextChat]_vars

\* One host thread calling the control operations around the lifecycle of
\* either instance
NextOps ==
    \/ initialize("t1", Bridges, {"cfg"})
    \/ shutdown("t1", Bridges)
    \/ connectHub("t1", {"b1"}, {"u1"})
    \/ control("t1", Bridges, ControlOps)

SpecOps == Init /\ [][NextOps]_vars

\* Magnet links handed to addMagnet: up to three parameters with distinct
\* keys, in any order, with tokens of 39, 35 and 3 characters and a display
\* name that contains the text of another key
Token39 == <<"A", "B", "C", "D", "E", "F", "G", "H", "I", "J", "K", "L", "M", "N", "O", "P", "Q", "R", "S", "T", "U", "V", "W", "X", "Y", "Z", "2", "3", "4", "5", "6", "7", "A", "B", "C", "D", "E", "F", "G">>
Token35 == <<"A", "B", "C", "D", "E", "F", "G", "H", "I", "J", "K", "L", "M", "N", "O", "P", "Q", "R", "S", "T", "U", "V", "W", "X", "Y", "Z", "2", "3", "4", "5", "6", "7", "A", "B", "C">>
Token3 == <<"A", "B", "C">>
MagnetParams ==
    {[k |-> "xt", v |-> v] : v \in {Token39, Token35, Token3}}
    \cup {[k |-> "xl", v |-> v] : v \in {<<"1", "0", "2", "4">>, <<"7">>}}
    \cup {[k |-> "dn", v |-> v] : v \in {<<"t", "e", "s", "t", ".", "i", "s", "o">>, <<"a">>, <<"x", "l", "=", "9">>}}

MaxParams == 3

MagnetInputs ==
    UNION {{ps \in [1..n -> MagnetParams] :
                \A i, j \in 1..n : ps[i].k = ps[j].k => i = j} : n \in 0..MaxParams}

InitMagnet ==
    /\ pc = [t \in Threads |-> "idle"]
    /\ br = [t \in Threads |-> NoBridge]
    /\ key = [t \in Threads |-> NoKey]
    /\ cap = [t \in Threads |-> {}]
    /\ ret = [t \in Threads |-> "none"]
    /\ m_initialized = [b \in Bridges |-> FALSE]
    /\ m_mutex = [b \in Bridges |-> NoThread]
    /\ m_configDir = [b \in Bridges |-> ""]
    /\ m_callback = [b \in Bridges |-> NoSink]
    /\ m_hubs = [b \in Bridges |-> EmptyMap]
    /\ m_fileLists = [b \in Bridges |-> {}]
    /\ g_dcppStarted = FALSE
    /\ g_dcppStartupMutex = NoThread
    /\ engineLive = 0
    /\ luaSlot = "null"
    /\ workers = {}
    /\ clients = <<>>
    /\ liveListings = {}
    /\ bl_bridge = NoBridge
    /\ bl_callback = NoSink
    /\ bl_subscribed = FALSE
    /\ wpc = "idle"
    /\ wev = NoEvent
    /\ lineNo = 0
    /\ burst = [w \in BurstWorkers |-> IdleBurst]
    /\ callArg \in MagnetInputs \ {<<>>}
    /\ am_local = <<>>
    /\ callOut = <<>>
    /\ queue = {}
    /\ registry = Defaults
    /\ stored = Defaults
    /\ s_lua = FALSE

NextMagnet ==
    \/ initialize("t1", {"b1"}, {"cfg"})
    \/ addMagnet("t1", {"b1"})

SpecMagnet == InitMagnet /\ [][NextMagnet]_vars

\* Paths handed to browseFileList for the one listing id, before and after
\* the listing is opened
PathChars == {Slash, "a", "A", "b", "c"}
MaxPathLen == 4
BrowseInputs ==
    {<<id, path>> : id \in ListIds,
                    path \in UNION {[1..n -> PathChars] : n \in 0..MaxPathLen}}

InitBrowse ==
    /\ pc = [t \in Threads |-> "idle"]
    /\ br = [t \in Threads |-> NoBridge]
    /\ key = [t \in Threads |-> NoKey]
    /\ cap = [t \in Threads |-> {}]
    /\ ret = [t \in Threads |-> "none"]
    /\ m_initialized = [b \in Bridges |-> FALSE]
    /\ m_mutex = [b \in Bridges |-> NoThread]
    /\ m_configDir = [b \in Bridges |-> ""]
    /\ m_callback = [b \in Bridges |-> NoSink]
    /\ m_hubs = [b \in Bridges |-> EmptyMap]
    /\ m_fileLists = [b \in Bridges |-> {}]
    /\ g_dcppStarted = FALSE
    /\ g_dcppStartupMutex = NoThread
    /\ engineLive = 0
    /\ luaSlot = "null"
    /\ workers = {}
    /\ clients = <<>>
    /\ liveListings = {}
    /\ bl_bridge = NoBridge
    /\ bl_callback = NoSink
    /\ bl_subscribed = FALSE
    /\ wpc = "idle"
    /\ wev = NoEvent
    /\ lineNo = 0
    /\ burst = [w \in BurstWorkers |-> IdleBurst]
    /\ callArg \in BrowseInputs
    /\ am_local = <<>>
    /\ callOut = <<>>
    /\ queue = {}
    /\ registry = Defaults
    /\ stored = Defaults
    /\ s_lua = FALSE

NextBrowse ==
    \/ initialize("t1", {"b1"}, {"cfg"})
    \/ openFileList("t1", {"b1"}, ListIds)
    \/ browseFileList("t1", {"b1"})

SpecBrowse == InitBrowse /\ [][NextBrowse]_vars

\* One host thread and a burst of workers firing into the router
NextBurst ==
    \/ initialize("t1", {"b1"}, {"cfg"})
    \/ setCallback("t1", {"b1"}, Sinks)
    \/ connectHub("t1", {"b1"}, Urls)
    \/ shutdown("t1", {"b1"})
    \/ \E w \in BurstWorkers : burst_fire(w) \/ burst_handle(w)

SpecBurst == Init /\ [][NextBurst]_vars

\* a thread that can take a step is scheduled: the host thread inside
\* shutdown() and every worker inside a handler
ShutdownProgress(t) ==
    \/ shutdown_unsub(t)
    \/ shutdown_lock(t)
    \/ shutdown_sweep(t)
    \/ shutdown_release(t)
    \/ shutdown_drain(t)
    \/ shutdown_lua(t)
    \/ shutdown_dcpp(t)
    \/ shutdown_glock(t)
    \/ shutdown_gstore(t)
    \/ shutdown_done(t)

SpecBurstFair ==
    /\ SpecBurst
    /\ WF_vars(ShutdownProgress("t1"))
    /\ \A w \in BurstWorkers : WF_vars(burst_handle(w))

\* One host thread registering, replacing and clearing the sink while the
\* workers deliver events
TwoSinks == {"cb1", "cb2"}

NextSinks ==
    \/ initialize("t1", {"b1"}, {"cfg"})
    \/ setCallback("t1", {"b1"}, TwoSinks)
    \/ connectHub("t1", {"b1"}, {"u1"})
    \/ shutdown("t1", {"b1"})
    \/ \E w \in BurstWorkers : burst_fire(w) \/ burst_handle(w)

SpecSinks == Init /\ [][NextSinks]_vars

\* One host thread opening and closing two listings around the lifecycle
TwoLists == {"l1", "l2"}

NextLists ==
    \/ initialize("t1", {"b1"}, {"cfg"})
    \/ shutdown("t1", {"b1"})
    \/ connectHub("t1", {"b1"}, {"u1"})
    \/ openFileList("t1", {"b1"}, TwoLists)
    \/ closeFileList("t1", {"b1"}, TwoLists)
    \/ closeAllFileLists("t1", {"b1"})

SpecLists == Init /\ [][NextLists]_vars

\* ------------------------------------------------------------------------
\* Vocabulary of the properties
\* ------------------------------------------------------------------------
\* statements that are calls into the dcpp engine (startup, managers,
\* Client, DirectoryListing, listener subscription)
EngineCallPcs ==
    {"init_startup", "init_post", "sd_unsub", "sd_release", "sd_drain",
     "sd_dcpp", "ch_get", "ch_connect", "dh_release", "of_resolve",
     "of_load", "dd_download"}

\* statements of shutdown()
ShutdownPcs ==
    {"sd_unsub", "sd_lock", "sd_sweep", "sd_release", "sd_drain", "sd_lua",
     "sd_dcpp", "sd_glock", "sd_gstore", "sd_done"}

\* statements of initialize()
InitializePcs ==
    {"init_lock", "init_glock", "init_gcheck", "init_cfg", "init_startup",
     "init_flag", "init_post", "init_done"}

\* statements at which a thread waits for / takes a table lock
TableLockPcs ==
    {"init_lock", "sd_lock", "ch_check", "ch_insert", "dh_find", "of_lock",
     "dd_lock"}

HoldsTableLock(t) == \E b \in Bridges : m_mutex[b] = t
HoldsEngineStateLock(t) == g_dcppStartupMutex = t
Running == {b \in Bridges : m_initialized[b]}
Handles == DOMAIN clients

\* a step taken by thread t (its position or its frame moves)
Acts(t) == pc'[t] # pc[t] \/ cap'[t] # cap[t] \/ ret'[t] # ret[t]

\* ------------------------------------------------------------------------
\* C1: for any interleaving of initialize() and shutdown() calls by any
\* instances and threads, dcpp::startup is never executed while an engine
\* instance is already active: at most one engine construction is live.
\* (Checked under SpecTwo.)
\* ------------------------------------------------------------------------
C1_SingleEngine == engineLive <= 1

\* ------------------------------------------------------------------------
\* C2: no thread executes a call into the engine API while it holds the
\* table lock m_mutex, for every operation including initialize,
\* openFileList and downloadDirFromList.  (Checked under SpecSeq.)
\* ------------------------------------------------------------------------
C2_NoEngineCallUnderTableLock ==
    \A t \in Threads : pc[t] \in EngineCallPcs => ~HoldsTableLock(t)

\* ------------------------------------------------------------------------
\* C3: the table lock and the engine-state lock are never nested: no thread
\* holds one of them while acquiring or holding the other.  (Original
\* statement; checked under SpecTwo.)
\* ------------------------------------------------------------------------
C3_NeverNested ==
    \A t \in Threads :
        /\ ~(HoldsTableLock(t) /\ HoldsEngineStateLock(t))
        /\ ~(HoldsTableLock(t) /\ pc[t] \in {"init_glock", "sd_glock"})
        /\ ~(HoldsEngineStateLock(t) /\ pc[t] \in TableLockPcs)

\* C3 as amended: no thread acquires a table lock while it holds the
\* engine-state lock; shutdown() never holds or acquires the engine-state
\* lock while holding a table lock; the only place both are held is the
\* flag check of initialize(), which takes the table lock first.
C3_LockOrder ==
    \A t \in Threads :
        /\ HoldsEngineStateLock(t) => pc[t] \notin TableLockPcs
        /\ (pc[t] \in ShutdownPcs /\ (HoldsEngineStateLock(t) \/ pc[t] = "sd_glock"))
              => ~HoldsTableLock(t)
        /\ (HoldsEngineStateLock(t) /\ HoldsTableLock(t)) => pc[t] = "init_gcheck"

\* a thread inside initialize() holds both locks
C3_BothHeld ==
    \E t \in Threads :
        /\ pc[t] = "init_gcheck"
        /\ HoldsEngineStateLock(t)
        /\ m_mutex[br[t]] = t

\* ------------------------------------------------------------------------
\* C4: in every execution of shutdown() the interpreter state is closed only
\* after the engine worker threads are drained; in particular the
\* interpreter state is never closed while an engine worker thread can
\* still run.  (Checked under Spec.)
\* ------------------------------------------------------------------------
C4_LuaClosedWithoutWorkers ==
    [][(luaSlot = "open" /\ luaSlot' = "null") => workers = {}]_vars

\* ------------------------------------------------------------------------
\* C5: during shutdown(), while the table lock is held the only actions are
\* capturing the handles and listings and clearing both tables; no listing
\* is destroyed and no handle is disconnected/released before the lock is
\* released.  (Checked under SpecSeq.)
\* ------------------------------------------------------------------------
C5_NothingDestroyedUnderLock ==
    [][\A t \in Threads :
          (Acts(t) /\ pc[t] \in ShutdownPcs /\ HoldsTableLock(t))
             => (liveListings' = liveListings /\ clients' = clients)]_vars

\* the facade's and the engine's data are as they were; no lock is left held
\* or taken
NothingTouched == UNCHANGED <<dataVars, m_mutex, g_dcppStartupMutex>>

\* ------------------------------------------------------------------------
\* C6: when shutdown() on a Running instance returns, the instance is
\* Uninitialized, the process-wide flag is cleared and the engine is torn
\* down; an initialize() that follows (on any instance) is not refused, and
\* when it succeeds it has started the engine again; shutdown() on an
\* instance that is not Running changes nothing.  (Checked under SpecSeq:
\* calls made one after another.)
\* ------------------------------------------------------------------------
C6_ShutdownThenRestart ==
    [][\A t \in Threads :
          /\ (Acts(t) /\ pc[t] = "sd_done") =>
                /\ ret'[t] = "sd_done"
                /\ ~m_initialized'[br[t]]
                /\ ~g_dcppStarted'
                /\ engineLive' = 0
                /\ luaSlot' = "null"
          /\ (Acts(t) /\ pc[t] = "init_gcheck" /\ Running = {}) =>
                pc'[t] = "init_cfg"
          /\ (Acts(t) /\ pc[t] = "init_startup") =>
                (engineLive = 0 /\ engineLive' = 1)
          /\ (Acts(t) /\ pc[t] = "init_done") =>
                /\ ret'[t] = "init_ok"
                /\ Running' = {br[t]}
                /\ g_dcppStarted'
                /\ engineLive' = 1
          /\ (Acts(t) /\ ret'[t] = "sd_noop") => NothingTouched]_vars

\* an initialize() has succeeded after a shutdown() that released a session
C6_Restarted ==
    /\ ret["t1"] = "init_ok"
    /\ engineLive = 1
    /\ g_dcppStarted
    /\ \E h \in Handles : clients[h].released /\ clients[h].attached

\* ------------------------------------------------------------------------
\* C7: initialize() on an instance that is already Running returns success,
\* for every caller thread, including a second thread calling initialize()
\* on the instance that the first thread's initialize() makes Running: no
\* initialize() returns false for a Running instance.  (Checked under Spec.)
\* ------------------------------------------------------------------------
C7_RunningInitializeSucceeds ==
    [][\A t \in Threads :
          (Acts(t) /\ pc[t] \in InitializePcs /\ m_initialized[br[t]]) =>
              ret'[t] # "init_refused"]_vars

\* ------------------------------------------------------------------------
\* C8: initialize() on an Uninitialized instance while the process-wide flag
\* is set returns false and touches no state (own config directory and
\* Running state, engine, router registration, tables of the running
\* instance); a filesystem failure creating the config directory returns
\* false with the engine not started and the flag not set.  (Checked under
\* SpecSeq.)
\* ------------------------------------------------------------------------
C8_RefusedTouchesNothing ==
    [][\A t \in Threads :
          /\ (Acts(t) /\ pc'[t] = "init_lock") => NothingTouched
          /\ (Acts(t) /\ pc[t] \in {"init_lock", "init_glock"}) =>
                UNCHANGED dataVars
          /\ (Acts(t) /\ pc[t] = "init_gcheck" /\ g_dcppStarted) =>
                /\ ret'[t] = "init_refused"
                /\ UNCHANGED dataVars
                /\ m_mutex'[br[t]] = NoThread
                /\ g_dcppStartupMutex' = NoThread
          /\ (Acts(t) /\ ret'[t] = "init_fsfail") =>
                /\ engineLive' = 0 /\ engineLive = 0
                /\ ~g_dcppStarted'
                /\ ~m_initialized'[br[t]]
                /\ m_mutex'[br[t]] = NoThread]_vars

\* b2.initialize() was refused while b1 runs with a session and a sink
C8_Refused ==
    /\ ret["t1"] = "init_refused"
    /\ m_initialized["b1"]
    /\ ~m_initialized["b2"]
    /\ m_configDir["b2"] = ""
    /\ m_hubs["b1"] # EmptyMap
    /\ bl_callback # NoSink
    /\ bl_bridge = "b1"

\* native clients connected for url u and not released, in client table cl
LiveFor(cl, u) ==
    {h \in DOMAIN cl : cl[h].url = u /\ cl[h].connected /\ ~cl[h].released}

\* ------------------------------------------------------------------------
\* C9: connectHub(url) is idempotent: when a session for url exists, a
\* further connectHub(url) returns after the table test, obtains no native
\* client, issues no native connect and leaves the table unchanged; a
\* native client is obtained, connected and inserted only for a url that
\* has no entry, so there is at most one live native connection per url.
\* (Checked under SpecSeq.)
\* ------------------------------------------------------------------------
C9_ConnectIdempotent ==
    [][\A t \in Threads :
          /\ (Acts(t) /\ pc[t] = "ch_check" /\ key[t] \in DOMAIN m_hubs[br[t]]) =>
                (ret'[t] = "ch_dup" /\ NothingTouched)
          /\ (Acts(t) /\ pc[t] \in {"ch_get", "ch_connect", "ch_insert"}) =>
                key[t] \notin DOMAIN m_hubs[br[t]]
          /\ \A u \in Urls : Cardinality(LiveFor(clients', u)) <= 1]_vars

\* a second connectHub(u1) has returned at the table test
C9_SecondConnect ==
    /\ ret["t1"] = "ch_dup"
    /\ "u1" \in DOMAIN m_hubs["b1"]
    /\ Cardinality(LiveFor(clients, "u1")) = 1

\* ------------------------------------------------------------------------
\* C10: disconnectHub(url) for a url with no entry in the session table
\* returns normally and has no side effect: session table, every session's
\* data, listing table, sink and engine (no detach, disconnect, putClient)
\* are unchanged.  (Checked under SpecSeq.)
\* ------------------------------------------------------------------------
C10_UnknownDisconnectNoEffect ==
    [][\A t \in Threads :
          /\ (Acts(t) /\ pc'[t] = "dh_find") => NothingTouched
          /\ (Acts(t) /\ pc[t] = "dh_find" /\ key[t] \notin DOMAIN m_hubs[br[t]]) =>
                /\ ret'[t] = "dh_unknown"
                /\ pc'[t] = "idle"
                /\ NothingTouched]_vars

\* disconnectHub of an unknown url has returned; a session, a listing and a
\* sink are there
C10_UnknownDisconnected ==
    /\ ret["t1"] = "dh_unknown"
    /\ m_hubs["b1"] # EmptyMap
    /\ m_fileLists["b1"] # {}
    /\ bl_callback # NoSink

\* ------------------------------------------------------------------------
\* C11: a native session handle obtained by connectHub is released
\* (disconnect + putClient) exactly once: no release step acts on a handle
\* that was already released, and once the instance has been shut down and
\* every call has returned, no handle is left unreleased.  (Checked under
\* Spec: two host threads interleaving connectHub, disconnectHub, shutdown.)
\* ------------------------------------------------------------------------
C11_ReleasedExactlyOnce ==
    [][/\ \A t \in Threads :
             (Acts(t) /\ pc[t] \in {"sd_release", "dh_release"}) =>
                 ~clients[MinOf(cap[t])].released
       /\ ((\A t \in Threads : pc'[t] = "idle") /\ Running' = {}) =>
             \A h \in DOMAIN clients' : clients'[h].released]_vars

\* the state the history model starts from (reached by initialize, connectHub)
ChatStart ==
    /\ ret["t1"] = "ch_done"
    /\ pc["t1"] = "idle"
    /\ m_initialized["b1"]
    /\ m_configDir["b1"] = ResolveCfgDir("cfg")
    /\ m_callback["b1"] = NoSink
    /\ m_hubs["b1"] = MapPut(EmptyMap, "u1", NewHubData(1, "u1"))
    /\ m_fileLists["b1"] = {}
    /\ g_dcppStarted /\ engineLive = 1 /\ luaSlot = "open"
    /\ workers = {1}
    /\ clients = <<[NewClient("u1") EXCEPT !.attached = TRUE, !.connected = TRUE]>>
    /\ bl_bridge = "b1" /\ bl_callback = NoSink /\ bl_subscribed
    /\ wpc = "idle" /\ wev = NoEvent /\ lineNo = 0

\* ------------------------------------------------------------------------
\* C12: for every event with a cache effect (chat message, hub state
\* change), the router has committed the cache update under the table lock
\* before the sink is invoked for that event, including events fired
\* between connectHub's client->connect() and the insertion of the session.
\* (Checked under SpecEvents.)
\* ------------------------------------------------------------------------
C12_CommitBeforeSink ==
    wpc \in {"msg_sink", "hub_sink"} => wev.committed

\* ------------------------------------------------------------------------
\* C13: when the sink is invoked for a chat message of session url, a
\* getChatHistory(url) made from inside the callback runs with the router
\* holding no table lock and its result contains the line of that event.
\* (Checked under SpecEvents.)
\* ------------------------------------------------------------------------
C13_SinkReadsOwnLine ==
    wpc = "msg_insink" =>
        /\ \A b \in Bridges : m_mutex[b] # Worker
        /\ \E i \in 1..Len(wev.got) : wev.got[i] = wev.line

\* ------------------------------------------------------------------------
\* C14: after a hub Connected event for a session present in the table has
\* been processed, isHubConnected(url) is true and listHubs() reports
\* connected = true for it; after a Failed event has been processed,
\* isHubConnected(url) is false.  (Checked under SpecEvents.)
\* ------------------------------------------------------------------------
C14_SnapshotFollowsHubEvents ==
    [][(wpc \in {"hub_getcb", "hub_sink"} /\ wpc' = "idle"
          /\ m_initialized'["b1"] /\ wev.url \in DOMAIN m_hubs'["b1"]
          /\ m_hubs'["b1"][wev.url].client = wev.h) =>
            /\ wev.kind = "Connected" =>
                  /\ isHubConnected("b1", wev.url)'
                  /\ [url |-> wev.url, connected |-> TRUE] \in listHubs("b1")'
            /\ wev.kind = "Failed" => ~isHubConnected("b1", wev.url)']_vars

\* ------------------------------------------------------------------------
\* C15: each session's chat history is never longer than the capacity; an
\* append to a history at capacity removes exactly the oldest line, an
\* append below capacity removes nothing, so that the history is always the
\* most recent lines in arrival order.  (Checked under SpecChat.)
\* ------------------------------------------------------------------------
C15_BoundedFifo ==
    [][/\ \A b \in Bridges : \A u \in DOMAIN m_hubs'[b] :
             Len(m_hubs'[b][u].chatHistory) <= MAX_HISTORY
       /\ (wpc = "msg_stash" /\ wpc' = "msg_getcb" /\ HasHub(wev.b, wev.url)) =>
             LET old == m_hubs[wev.b][wev.url].chatHistory
                 new == m_hubs'[wev.b][wev.url].chatHistory
             IN /\ new = IF Len(old) < MAX_HISTORY
                         THEN Append(old, wev.line)
                         ELSE Append(Tail(old), wev.line)
                /\ \A i \in 1..Len(new) : new[i] = wev.line - Len(new) + i]_vars

\* more lines than the capacity have been appended: the history is full and
\* its oldest lines are gone
C15_Evicted ==
    /\ "u1" \in DOMAIN m_hubs["b1"]
    /\ Len(m_hubs["b1"]["u1"].chatHistory) = MAX_HISTORY
    /\ m_hubs["b1"]["u1"].chatHistory[1] > 2
    /\ m_hubs["b1"]["u1"].chatHistory[MAX_HISTORY] = lineNo

\* ------------------------------------------------------------------------
\* C16: every control operation invoked while the instance is not Running
\* returns its failure/empty value without throwing and without invoking
\* an engine operation; this includes luaEval, luaEvalFile and
\* startNetworking.  (Checked under SpecOps.)
\* ------------------------------------------------------------------------
C16_NotRunningFailsQuietly ==
    [][\A t \in Threads :
          /\ (Acts(t) /\ pc[t] = "idle" /\ pc'[t] \in {"op_engine", "op_script"})
                 => m_initialized[br'[t]]
          /\ ret'[t] # "op_throw_notinit"]_vars

\* ------------------------------------------------------------------------
\* C17: for every control operation other than the scripting evaluations,
\* an engine-level exception raised by the engine operation it calls does
\* not propagate to the host: the operation returns its failure value.
\* (Checked under SpecOps.)
\* ------------------------------------------------------------------------
C17_NoEngineExceptionEscapes ==
    [][\A t \in Threads :
          (Acts(t) /\ pc[t] = "op_engine" /\ key[t] \notin ScriptOps) =>
              ret'[t] # "op_escaped"]_vars

\* ------------------------------------------------------------------------
\* Magnet links as the host composed them
\* ------------------------------------------------------------------------
KeyRank(k) == IF k = "xt" THEN 1 ELSE IF k = "xl" THEN 2 ELSE 3

\* the parameters come in the order xt, xl, dn
IsCanonical(ps) ==
    \A i, j \in 1..Len(ps) : i < j => KeyRank(ps[i].k) < KeyRank(ps[j].k)

\* the value given for a key: <<v>>, or <<>> when the key is absent
ParamValue(ps, k) ==
    LET at == {i \in 1..Len(ps) : ps[i].k = k}
    IN  IF at = {} THEN <<>> ELSE <<ps[CHOOSE i \in at : TRUE].v>>

\* the same parameters in every order
PermsOf(ps) ==
    {qs \in [1..Len(ps) -> {ps[i] : i \in 1..Len(ps)}] :
        \A i \in 1..Len(ps) : \E j \in 1..Len(ps) : qs[j] = ps[i]}

\* what the link asks the queue to hold
Wanted(ps) ==
    LET xt == ParamValue(ps, "xt")
        xl == ParamValue(ps, "xl")
        dn == ParamValue(ps, "dn")
    IN  [tth |-> xt[1],
         size |-> IF xl = <<>> THEN 0 ELSE toInt64(xl[1]),
         name |-> IF dn = <<>> THEN xt[1] ELSE dn[1]]

HasToken(ps) ==
    /\ ParamValue(ps, "xt") # <<>>
    /\ Len(ParamValue(ps, "xt")[1]) = TTH_LEN

\* ------------------------------------------------------------------------
\* C18: for a link of the form scheme:?xt=urn:tree:tiger:<T>&xl=<s>&dn=<n>
\* addMagnet admits to the queue exactly TTH = <T>, size = <s> read in base
\* 10 (0 with xl absent) and name = <n> (the TTH token with dn absent);
\* when the xt marker is absent, or no 39-character token follows it,
\* addMagnet returns false and admits nothing.  (Checked under SpecMagnet.)
\* ------------------------------------------------------------------------
C18_MagnetFields ==
    IsCanonical(callArg) =>
        IF HasToken(callArg)
        THEN queue \subseteq {Wanted(callArg)}
        ELSE queue = {} /\ callOut # <<TRUE>>

\* ------------------------------------------------------------------------
\* C19: with xt present, every order of the parameters of a link gives the
\* same TTH, size and name, also when a value contains the text of another
\* key.  (Checked under SpecMagnet.)
\* ------------------------------------------------------------------------
C19_OrderIndependent ==
    (am_local # <<>> /\ ParamValue(callArg, "xt") # <<>>) =>
        \A qs \in PermsOf(callArg) : addMagnet_parse(Render(qs)) = am_local[1]

\* ------------------------------------------------------------------------
\* The directory a path names in the listing's tree
\* ------------------------------------------------------------------------
NonEmpty(seg) == seg # <<>>

\* the non-empty '/'-separated segments of a path
Segments(path) == SelectSeq(Tokens(path, 1), NonEmpty)

\* the names from the root down to a node
RECURSIVE NodePath(_)
NodePath(n) ==
    IF n = Root THEN <<>>
    ELSE LET d == CHOOSE x \in Directories : x.id = n
         IN  Append(NodePath(d.parent), d.name)

\* the nodes whose names from the root are exactly the segments
NamedBy(path) ==
    {n \in {Root} \cup {d.id : d \in Directories} : NodePath(n) = Segments(path)}

\* entries one level below a node
ChildrenOf(n) ==
    {[name |-> d.name, isDirectory |-> TRUE] : d \in {x \in Directories : x.parent = n}}
    \cup {[name |-> f.name, isDirectory |-> FALSE] : f \in {x \in Files : x.parent = n}}

\* ------------------------------------------------------------------------
\* C20: browseFileList(id, path) on an open listing follows the '/'-separated
\* segments of path from the root with exact, case-sensitive names (empty
\* segments skipped, "/" and "" being the root); a segment without a
\* matching subdirectory gives the empty result, otherwise the result is
\* exactly the immediate subdirectories and files of the directory reached;
\* an id that is not open gives the empty result; the listing table is the
\* same after the call.  (Checked under SpecBrowse.)
\* ------------------------------------------------------------------------
C20_BrowseImmediateChildren ==
    [][\A t \in Threads :
          /\ (pc[t] \in {"bf_lock", "bf_walk"} \/ pc'[t] \in {"bf_lock", "bf_walk"})
                => /\ m_fileLists' = m_fileLists
                   /\ liveListings' = liveListings
          /\ (pc[t] = "bf_walk" /\ pc'[t] = "idle")
                => callOut' =
                     <<IF callArg[1] \notin m_fileLists[br[t]] \/ NamedBy(callArg[2]) = {}
                       THEN {}
                       ELSE UNION {ChildrenOf(n) : n \in NamedBy(callArg[2])}>>]_vars

\* a walk over two segments ended in a directory and its entries came back
C20_BrowsedNested ==
    /\ pc["t1"] = "idle"
    /\ ret["t1"] = "bf_done"
    /\ "l1" \in m_fileLists["b1"]
    /\ callArg = <<"l1", <<"a", "b", "/", "a">>>>
    /\ callOut = <<{[name |-> <<"k">>, isDirectory |-> FALSE]}>>

\* ------------------------------------------------------------------------
\* C21: openFileList(id) on an id already in the listing table returns
\* success and leaves the table as it is; when owner resolution or parsing
\* fails it returns false and the table is exactly as before the call, with
\* no entry for id; when it succeeds the table gains exactly the entry id,
\* and an entry leaves the table only by closeFileList(id),
\* closeAllFileLists() or shutdown().  (Checked under SpecLists.)
\* ------------------------------------------------------------------------
C21_OpenIsAllOrNothing ==
    [][\A t \in Threads :
          /\ (pc[t] \in {"of_lock", "of_resolve", "of_load"} /\ pc'[t] = "idle") =>
                /\ ret'[t] = "of_already" =>
                      m_fileLists' = m_fileLists /\ key[t] \in m_fileLists[br[t]]
                /\ ret'[t] \in {"of_nouser", "of_loadfail"} =>
                      m_fileLists' = m_fileLists /\ key[t] \notin m_fileLists'[br[t]]
                /\ ret'[t] = "of_ok" =>
                      /\ key[t] \notin m_fileLists[br[t]]
                      /\ m_fileLists' = [m_fileLists EXCEPT ![br[t]] = @ \cup {key[t]}]
          /\ (pc[t] \in {"of_lock", "of_resolve", "of_load"} /\ pc'[t] # "idle") =>
                m_fileLists' = m_fileLists
       /\ \A b \in Bridges :
             m_fileLists[b] \ m_fileLists'[b] # {} =>
                \E u \in Threads :
                   \/ pc[u] = "sd_sweep" /\ br[u] = b /\ pc'[u] # "sd_sweep"
                   \/ pc[u] = "idle" /\ ret'[u] = "ca_done"
                   \/ /\ pc[u] = "idle" /\ ret'[u] = "cl_done"
                      /\ Cardinality(m_fileLists[b] \ m_fileLists'[b]) = 1]_vars

\* a second open of a listing that is in the table
C21_OpenedTwice ==
    /\ pc["t1"] = "idle"
    /\ ret["t1"] = "of_already"
    /\ m_fileLists["b1"] = {"l1", "l2"}

\* ------------------------------------------------------------------------
\* C22: with worker threads concurrently firing events into the router,
\* each inside its hub's dispatch while it waits for the table lock, a
\* shutdown() that has been called returns under fair scheduling (no
\* thread is stuck and the process does not die on the way), and when it
\* returns the process-wide engine-running flag is cleared.
\* (Checked under SpecBurstFair.)
\* ------------------------------------------------------------------------
C22_ShutdownTerminates ==
    /\ [](\A w \in BurstWorkers : burst[w].pc # "crashed")
    /\ (pc["t1"] \in ShutdownPcs) ~>
           (pc["t1"] = "idle" /\ ret["t1"] = "sd_done" /\ ~g_dcppStarted)

\* the part of C22 about locks alone: shutdown() returns with the flag
\* cleared unless a worker has dereferenced the null bridge pointer
ShutdownReturnsUnlessCrash ==
    (pc["t1"] \in ShutdownPcs) ~>
        \/ pc["t1"] = "idle" /\ ret["t1"] = "sd_done" /\ ~g_dcppStarted
        \/ \E w \in BurstWorkers : burst[w].pc = "crashed"

\* ------------------------------------------------------------------------
\* C23: there is one registered sink at a time; after setCallback(cb2) every
\* event delivered goes to cb2 only; after setCallback(nullptr) or
\* shutdown() has returned no sink callback is invoked, also not for an
\* event a worker was already processing when the sink was replaced or
\* cleared.  A callback is entered only through the pointer that is
\* registered at that moment, unless the host is still inside shutdown().
\* (Checked under SpecSinks.)
\* ------------------------------------------------------------------------
C23_OnlyRegisteredSinkInvoked ==
    [][\A w \in BurstWorkers :
          (burst[w].pc = "b_call" /\ burst'[w].pc = "b_sink") =>
              \/ burst[w].cb = bl_callback
              \/ \E t \in Threads : pc[t] \in ShutdownPcs]_vars


\* ------------------------------------------------------------------------
\* Settings: getSetting, setSetting, reloadConfig (bridge.cpp:1183-1232)
\* ------------------------------------------------------------------------

\* the texts a host passes as a value: a decimal number, one with a leading
\* zero, and one that is no number
SettingValues == {<<"7">>, <<"0", "7">>, <<"a">>}
SettingNames == KnownSettings \cup {"NoSuchSetting"}

\* std::atoi / std::atoll: an optional sign, then the leading digits
atoi(s) ==
    IF Len(s) > 0 /\ s[1] = "-" THEN 0 - toInt64From(s, 2, 0)
    ELSE toInt64From(s, 1, 0)

\* std::to_string of an integer: its decimal digits, "-" first when negative
RECURSIVE to_stringFrom(_)
to_stringFrom(n) ==
    IF n < 10 THEN <<DigitChars[n + 1]>>
    ELSE Append(to_stringFrom(n \div 10), DigitChars[(n % 10) + 1])

to_string(n) == IF n < 0 THEN <<"-">> \o to_stringFrom(0 - n) ELSE to_stringFrom(n)

\* :1196-1201  what getSetting renders for a known name out of registry reg
getSetting_text(reg, name) ==
    IF name \in StrSettings THEN reg[name] ELSE to_string(reg[name])

\* :1217-1223  the value setSetting hands to SettingsManager::set
setSetting_value(name, value) ==
    IF name \in StrSettings THEN value ELSE atoi(value)

\* :1183-1204  getSetting(name)
getSetting(t, B, N) ==
    /\ pc[t] = "idle"
    /\ UNCHANGED <<eventVars, processVars, am_local, queue>>
    /\ \E b \in B, name \in N :
        /\ callArg' = <<name>>
        /\ callOut' = IF ~m_initialized[b] \/ name \notin KnownSettings
                      THEN << <<>> >>
                      ELSE <<getSetting_text(registry, name)>>
    /\ Return(t, "gs_done")
    /\ UNCHANGED <<bridgeVars, guardVars, engineVars, routerVars>>

\* :1206-1227  setSetting(name, value): set, then sm->save()
setSetting(t, B, N, V) ==
    /\ pc[t] = "idle"
    /\ UNCHANGED <<eventVars, s_lua, am_local, callOut, queue>>
    /\ \E b \in B, name \in N, value \in V :
        /\ callArg' = <<name, value>>
        /\ IF ~m_initialized[b] \/ name \notin KnownSettings
           THEN /\ UNCHANGED settingVars
                /\ Return(t, "ss_ignored")
           ELSE /\ registry' = [registry EXCEPT
                                  ![name] = setSetting_value(name, value)]
                /\ stored' = registry'
                /\ Return(t, "ss_done")
    /\ UNCHANGED <<bridgeVars, guardVars, engineVars, routerVars>>

\* :1229-1232  reloadConfig(): SettingsManager::load()
reloadConfig(t, B) ==
    /\ pc[t] = "idle"
    /\ UNCHANGED <<eventVars, valueVars, stored, s_lua>>
    /\ \E b \in B :
        /\ registry' = IF m_initialized[b] THEN stored ELSE registry
        /\ Return(t, "rc_done")
    /\ UNCHANGED <<bridgeVars, guardVars, engineVars, routerVars>>

NextSettings ==
    \/ initialize("t1", {"b1"}, {"cfg"})
    \/ shutdown("t1", {"b1"})
    \/ connectHub("t1", {"b1"}, {"u1"})
    \/ getSetting("t1", {"b1"}, SettingNames)
    \/ setSetting("t1", {"b1"}, SettingNames, SettingValues)
    \/ reloadConfig("t1", {"b1"})

SpecSettings == Init /\ [][NextSettings]_vars

\* C24: a setSetting of a known name leaves the registry holding a value
\* that getSetting renders as the very text that was passed, and the settings
\* file equal to the registry; the file changes in no other step, and
\* startup and reloadConfig bring the registry back to the file; for an
\* unknown name setSetting changes neither and getSetting returns "".
C24_SettingsRoundTrip ==
    [][/\ ret'["t1"] = "ss_done" /\ pc["t1"] = "idle"
          => /\ getSetting_text(registry', callArg'[1]) = callArg'[2]
             /\ stored' = registry'
       /\ ~(ret'["t1"] = "ss_done" /\ pc["t1"] = "idle") => stored' = stored
       /\ pc["t1"] = "init_startup" => registry' = stored
       /\ ret'["t1"] = "rc_done" /\ pc["t1"] = "idle" /\ m_initialized["b1"]
          => registry' = stored
       /\ ret'["t1"] = "gs_done" /\ pc["t1"] = "idle"
          /\ callArg'[1] \notin KnownSettings
          => callOut' = << <<>> >>]_vars

\* the persistence half of C24 alone: the file follows every set, and
\* nothing else writes it
SettingsPersisted ==
    [][/\ ret'["t1"] = "ss_done" /\ pc["t1"] = "idle" => stored' = registry'
       /\ ~(ret'["t1"] = "ss_done" /\ pc["t1"] = "idle") => stored' = stored
       /\ pc["t1"] = "init_startup" => registry' = stored]_vars


\* ------------------------------------------------------------------------
\* Lua scripting: initLuaScriptingIfPresent (bridge.cpp:114-158), luaEval,
\* luaEvalFile, luaIsAvailable (bridge.cpp:1238-1314)
\* ------------------------------------------------------------------------

\* the engine's interpreter-state slot ScriptInstance::L before the first
\* initialize(): the symbol is absent (engine built without Lua), the slot is
\* empty, or another component has already put a state there
LuaSlots == {"absent", "null", "foreign"}

\* :1238-1245  luaIsAvailable: the slot exists and holds a state
luaAvailable == luaSlot \in {"open", "foreign"}

\* :1248-1278, 1283-1313  the ways an evaluation on bridge b can end
luaEval_outcomes(b) ==
    IF ~m_initialized[b] THEN {"LuaError"}
    ELSE IF ~luaAvailable THEN {"LuaNotAvailableError"}
    ELSE IF ~s_lua THEN {"LuaSymbolError"}
    ELSE {"lua_done", "LuaLoadError", "LuaRuntimeError"}

\* :1247-1280  luaEval(code)
luaEval(t, B) ==
    /\ pc[t] = "idle"
    /\ UNCHANGED <<eventVars, valueVars, processVars>>
    /\ \E b \in B : \E outcome \in luaEval_outcomes(b) : Return(t, outcome)
    /\ UNCHANGED <<bridgeVars, guardVars, engineVars, routerVars>>

\* :1282-1314  luaEvalFile(path)
luaEvalFile(t, B) ==
    /\ pc[t] = "idle"
    /\ UNCHANGED <<eventVars, processVars, callArg, am_local, queue>>
    /\ callOut' = <<"file">>
    /\ \E b \in B : \E outcome \in luaEval_outcomes(b) : Return(t, outcome)
    /\ UNCHANGED <<bridgeVars, guardVars, engineVars, routerVars>>

\* :1238-1245  luaIsAvailable()
luaIsAvailable(t) ==
    /\ pc[t] = "idle"
    /\ UNCHANGED <<eventVars, processVars, callArg, am_local, queue>>
    /\ callOut' = <<luaAvailable>>
    /\ Return(t, "la_done")
    /\ UNCHANGED <<bridgeVars, guardVars, engineVars, routerVars>>

InitLua ==
    /\ pc = [t \in Threads |-> "idle"]
    /\ br = [t \in Threads |-> NoBridge]
    /\ key = [t \in Threads |-> NoKey]
    /\ cap = [t \in Threads |-> {}]
    /\ ret = [t \in Threads |-> "none"]
    /\ m_initialized = [b \in Bridges |-> FALSE]
    /\ m_mutex = [b \in Bridges |-> NoThread]
    /\ m_configDir = [b \in Bridges |-> ""]
    /\ m_callback = [b \in Bridges |-> NoSink]
    /\ m_hubs = [b \in Bridges |-> EmptyMap]
    /\ m_fileLists = [b \in Bridges |-> {}]
    /\ g_dcppStarted = FALSE
    /\ g_dcppStartupMutex = NoThread
    /\ engineLive = 0
    /\ luaSlot \in LuaSlots
    /\ workers = {}
    /\ clients = <<>>
    /\ liveListings = {}
    /\ bl_bridge = NoBridge
    /\ bl_callback = NoSink
    /\ bl_subscribed = FALSE
    /\ wpc = "idle"
    /\ wev = NoEvent
    /\ lineNo = 0
    /\ burst = [w \in BurstWorkers |-> IdleBurst]
    /\ callArg = <<>>
    /\ am_local = <<>>
    /\ callOut = <<>>
    /\ queue = {}
    /\ registry = Defaults
    /\ stored = Defaults
    /\ s_lua = FALSE

NextLua ==
    \/ initialize("t1", {"b1"}, {"cfg"})
    \/ shutdown("t1", {"b1"})
    \/ connectHub("t1", {"b1"}, {"u1"})
    \/ luaEval("t1", {"b1"})
    \/ luaEvalFile("t1", {"b1"})
    \/ luaIsAvailable("t1")

SpecLua == InitLua /\ [][NextLua]_vars

LuaThrown == {"LuaError", "LuaNotAvailableError", "LuaSymbolError",
              "LuaLoadError", "LuaRuntimeError"}
LuaReturned(t) == pc[t] = "idle" /\ ret'[t] \in LuaThrown \cup {"lua_done"}

\* C25: the probe leaves a slot that is already populated as it is and
\* resolves nothing; while the adapter is Available an evaluation succeeds
\* or fails with a load error or a runtime error and with no other kind of
\* error; while the slot is absent or empty it fails with the unavailable
\* error.
C25_AvailableEvalErrors ==
    [][/\ pc["t1"] = "init_post" /\ luaSlot = "foreign"
          => luaSlot' = luaSlot /\ s_lua' = s_lua
       /\ LuaReturned("t1") /\ luaAvailable
          => ret'["t1"] \in {"lua_done", "LuaLoadError", "LuaRuntimeError"}
       /\ LuaReturned("t1") /\ ~luaAvailable
          => ret'["t1"] = "LuaNotAvailableError"]_vars

\* the part of C25 that holds: on a Running bridge an empty or absent slot
\* gives the unavailable error, and a state the probe created itself gives
\* success, a load error or a runtime error
LuaErrorsOnOwnState ==
    [][/\ pc["t1"] = "init_post" /\ luaSlot = "foreign"
          => luaSlot' = luaSlot /\ s_lua' = s_lua
       /\ LuaReturned("t1") /\ m_initialized["b1"] /\ luaSlot = "open"
          => ret'["t1"] \in {"lua_done", "LuaLoadError", "LuaRuntimeError"}
       /\ LuaReturned("t1") /\ m_initialized["b1"] /\ ~luaAvailable
          => ret'["t1"] = "LuaNotAvailableError"]_vars


\* ------------------------------------------------------------------------
\* Operations that look a session up by url: sendMessage (bridge.cpp:
\* 458-471) keeps the Client* and calls through it after m_mutex is
\* released; sendPM (473-490), getUserInfo (530-555), search (561-591) and
\* requestFileList (770-795) only test it for null under the lock
\* ------------------------------------------------------------------------
\* :460  not initialized: return
sendMessage_call(t, B, U) ==
    /\ pc[t] = "idle"
    /\ UNCHANGED <<eventVars, valueVars, processVars>>
    /\ \E b \in B, u \in U :
        IF ~m_initialized[b]
        THEN Return(t, "notinit")
        ELSE Enter(t, "sm_find", b, u)
    /\ UNCHANGED <<bridgeVars, guardVars, engineVars, routerVars>>

\* :463-467  under the lock: client = findClient(hubUrl); null: return
sendMessage_find(t) ==
    /\ pc[t] = "sm_find"
    /\ UNCHANGED <<eventVars, valueVars, processVars>>
    /\ m_mutex[br[t]] = NoThread
    /\ IF ~HasHub(br[t], key[t]) \/ m_hubs[br[t]][key[t]].client = NullClient
       THEN Return(t, "sm_nohub")
       ELSE /\ cap' = [cap EXCEPT ![t] = {m_hubs[br[t]][key[t]].client}]
            /\ Goto(t, "sm_send")
    /\ UNCHANGED <<bridgeVars, guardVars, engineVars, routerVars>>

\* :470  client->hubMessage(message), m_mutex not held; through a pointer
\*       putClient has released the call is undefined
sendMessage_send(t) ==
    /\ pc[t] = "sm_send"
    /\ UNCHANGED <<eventVars, valueVars, processVars>>
    /\ IF clients[MinOf(cap[t])].released
       THEN \E outcome \in {"sm_crash", "sm_done"} : Return(t, outcome)
       ELSE Return(t, "sm_done")
    /\ UNCHANGED <<bridgeVars, guardVars, engineVars, routerVars>>

sendMessage(t, B, U) ==
    \/ sendMessage_call(t, B, U)
    \/ sendMessage_find(t)
    \/ sendMessage_send(t)

\* :474, 563, 772  not initialized: return
sendPM_call(t, B, U) ==
    /\ pc[t] = "idle"
    /\ UNCHANGED <<eventVars, valueVars, processVars>>
    /\ \E b \in B, u \in U :
        IF ~m_initialized[b]
        THEN Return(t, "notinit")
        ELSE Enter(t, "sp_find", b, u)
    /\ UNCHANGED <<bridgeVars, guardVars, engineVars, routerVars>>

\* :476-480, 566-569, 775-779  under the lock: findClient(hubUrl) is only
\*           tested; the pointer does not leave the block
sendPM_find(t) ==
    /\ pc[t] = "sp_find"
    /\ UNCHANGED <<eventVars, valueVars, processVars>>
    /\ m_mutex[br[t]] = NoThread
    /\ IF ~HasHub(br[t], key[t]) \/ m_hubs[br[t]][key[t]].client = NullClient
       THEN Return(t, "sp_nohub")
       ELSE Goto(t, "sp_engine")
    /\ UNCHANGED <<cap, bridgeVars, guardVars, engineVars, routerVars>>

\* :483-489, 572-590, 782-794  the engine is addressed by nick and url
sendPM_engine(t) ==
    /\ pc[t] = "sp_engine"
    /\ UNCHANGED <<eventVars, valueVars, processVars>>
    /\ Return(t, "sp_done")
    /\ UNCHANGED <<bridgeVars, guardVars, engineVars, routerVars>>

sendPM(t, B, U) ==
    \/ sendPM_call(t, B, U)
    \/ sendPM_find(t)
    \/ sendPM_engine(t)

NextSend ==
    \/ initialize("t1", {"b1"}, {"cfg"})
    \/ connectHub("t1", {"b1"}, {"u1"})
    \/ sendMessage("t1", {"b1"}, {"u1"})
    \/ sendPM("t1", {"b1"}, {"u1"})
    \/ disconnectHub("t2", {"b1"}, {"u1"})
    \/ shutdown("t2", {"b1"})

SpecSend == Init /\ [][NextSend]_vars

\* C26: no facade operation calls through a session's native handle after
\* the handle has been released: whenever a thread makes the engine call of
\* sendMessage, the Client it holds has not been handed to putClient, also
\* with disconnectHub or shutdown running concurrently on another thread.
C26_NoUseAfterRelease ==
    [][\A t \in Threads :
          (pc[t] = "sm_send" /\ pc'[t] = "idle")
             => ~clients[MinOf(cap[t])].released]_vars

\* the operations that do not keep the pointer never hold one at their engine
\* call
LookupKeepsNoHandle == \A t \in Threads : pc[t] = "sp_engine" => cap[t] = {}


\* ------------------------------------------------------------------------
\* DCBridge::downloadFileFromList (bridge.cpp:901-987) and the queue event
\* QueueManager fires from inside add() on the calling thread, which the
\* router hands to the sink (bridge_listeners.h:315-322)
\* ------------------------------------------------------------------------
\* :904  not initialized: return false
downloadFileFromList_call(t, B, L) ==
    /\ pc[t] = "idle"
    /\ UNCHANGED <<eventVars, valueVars, processVars>>
    /\ \E b \in B, id \in L :
        IF ~m_initialized[b]
        THEN Return(t, "notinit")
        ELSE Enter(t, "df_lock", b, id)
    /\ UNCHANGED <<bridgeVars, guardVars, engineVars, routerVars>>

\* :915-975  the block under std::lock_guard lock(m_mutex): list not open,
\*           path not resolved or null user: return false; else the size,
\*           the hash, the user and the target are copied out and the lock
\*           is released at the end of the block
downloadFileFromList_lock(t) ==
    /\ pc[t] = "df_lock"
    /\ UNCHANGED <<eventVars, valueVars, processVars>>
    /\ m_mutex[br[t]] = NoThread
    /\ \E resolved \in BOOLEAN :
        IF key[t] \notin m_fileLists[br[t]]
        THEN Return(t, "df_notopen")
        ELSE IF ~resolved
             THEN Return(t, "df_fail")
             ELSE Goto(t, "df_add") /\ UNCHANGED cap
    /\ UNCHANGED <<bridgeVars, guardVars, engineVars, routerVars>>

\* :979-986  QueueManager::add outside the lock; an Exception returns false
downloadFileFromList_add(t) ==
    /\ pc[t] = "df_add"
    /\ UNCHANGED <<eventVars, valueVars, processVars>>
    /\ \E queued \in BOOLEAN :
        Return(t, IF queued THEN "df_ok" ELSE "df_fail")
    /\ UNCHANGED <<bridgeVars, guardVars, engineVars, routerVars>>

downloadFileFromList(t, B, L) ==
    \/ downloadFileFromList_call(t, B, L)
    \/ downloadFileFromList_lock(t)
    \/ downloadFileFromList_add(t)

\* bridge_listeners.h:315-322  on(QueueManagerListener::Added): the engine
\* call of a download has queued a new item and fires the event on the
\* calling thread before it returns; the router is subscribed and a sink is
\* registered, so cb->onQueueItemAdded is entered
on_Added_call(t) ==
    /\ pc[t] \in {"dd_download", "df_add"}
    /\ UNCHANGED <<eventVars, valueVars, processVars>>
    /\ bl_subscribed
    /\ bl_callback # NoSink
    /\ Goto(t, IF pc[t] = "dd_download" THEN "dd_sink" ELSE "df_sink")
    /\ UNCHANGED <<cap, bridgeVars, guardVars, engineVars, routerVars>>

\* the sink has been told of the item; it returns, add() returns, and so
\* does the operation: true, with
\* downloadDirFromList's function-scope lock released (bridge.cpp:1037, 986)
on_Added_return(t) ==
    /\ pc[t] \in {"dd_sink", "df_sink"}
    /\ UNCHANGED <<eventVars, processVars, callArg, am_local, queue>>
    /\ callOut' = <<"onQueueItemAdded", key[t]>>
    /\ Return(t, IF pc[t] = "dd_sink" THEN "dd_ok" ELSE "df_ok")
    /\ m_mutex' = [m_mutex EXCEPT ![br[t]] =
                     IF @ = t THEN NoThread ELSE @]
    /\ UNCHANGED <<m_initialized, m_configDir, m_callback, m_hubs, m_fileLists,
                   guardVars, engineVars, routerVars>>

NextQueue ==
    \/ initialize("t1", {"b1"}, {"cfg"})
    \/ setCallback("t1", {"b1"}, Sinks)
    \/ openFileList("t1", {"b1"}, TwoLists)
    \/ closeFileList("t1", {"b1"}, TwoLists)
    \/ downloadFileFromList("t1", {"b1"}, TwoLists)
    \/ downloadDirFromList("t1", {"b1"}, TwoLists)
    \/ on_Added_call("t1")
    \/ on_Added_return("t1")

SpecQueue == Init /\ [][NextQueue]_vars

\* a download's engine call, and the sink entered from inside it
QueueCallPcs == {"dd_download", "df_add"}
QueueSinkPcs == {"dd_sink", "df_sink"}

\* C27: the sink is never running on a thread that holds the table lock,
\* and no facade operation holds the table lock at an engine call that
\* fires a listener event synchronously (the queue-add calls of
\* downloadFileFromList and downloadDirFromList).
C27_NoSinkUnderTableLock ==
    \A t \in Threads :
        pc[t] \in QueueCallPcs \cup QueueSinkPcs => ~HoldsTableLock(t)

\* downloadFileFromList alone keeps to it
FileDownloadOutsideLock ==
    \A t \in Threads : pc[t] \in {"df_add", "df_sink"} => ~HoldsTableLock(t)


\* ------------------------------------------------------------------------
\* bridge.h:347-348  the facade's declared maximum of chat lines per hub
\* ------------------------------------------------------------------------
MAX_CHAT_LINES == 100

\* C28: the capacity enforced on each session's chat history is the
\* facade's declared maximum: in every reachable state every session's chat
\* history holds at most MAX_CHAT_LINES = 100 lines.  (Checked under
\* SpecChat.)
C28_DeclaredCapacityEnforced ==
    \A b \in Bridges : \A u \in DOMAIN m_hubs[b] :
        Len(m_hubs[b][u].chatHistory) <= MAX_CHAT_LINES

\* what stashChat enforces is its own limit
CapacityIsMaxHistory ==
    \A b \in Bridges : \A u \in DOMAIN m_hubs[b] :
        Len(m_hubs[b][u].chatHistory) <= MAX_HISTORY


\* ------------------------------------------------------------------------
\* Sessions ended by disconnectHub or by shutdown while their socket
\* threads deliver events
\* ------------------------------------------------------------------------
NextDetach ==
    \/ initialize("t1", {"b1"}, {"cfg"})
    \/ setCallback("t1", {"b1"}, Sinks)
    \/ connectHub("t1", {"b1"}, {"u1"})
    \/ disconnectHub("t1", {"b1"}, {"u1"})
    \/ shutdown("t1", {"b1"})
    \/ \E w \in BurstWorkers : burst_fire(w) \/ burst_handle(w)

SpecDetach == Init /\ [][NextDetach]_vars

\* C29: whenever a client is handed to putClient, by disconnectHub or by
\* shutdown's release loop, the router has been removed from that client's
\* listeners first; and no event is delivered to the router for a client
\* that has been detached or released, so that after disconnectHub(url) has
\* returned no new event of the old client reaches the state cached under
\* url.
C29_DetachedBeforeRelease ==
    [][/\ \A h \in DOMAIN clients :
             (clients'[h].released /\ ~clients[h].released)
                => ~clients'[h].attached
       /\ \A w \in BurstWorkers :
             (burst[w].pc = "idle" /\ burst'[w].pc = "b_check")
                => /\ clients[burst'[w].h].attached
                   /\ ~clients[burst'[w].h].released]_vars

\* disconnectHub by itself detaches before it releases
DisconnectDetachesFirst ==
    [][\A t \in Threads : \A h \in DOMAIN clients :
          (pc[t] = "dh_release" /\ clients'[h].released /\ ~clients[h].released)
             => ~clients'[h].attached]_vars


\* ------------------------------------------------------------------------
\* DCBridge::getChatHistory(hubUrl, maxLines) (bridge.cpp:492-509)
\* ------------------------------------------------------------------------
HistoryLines == 3
MaxLinesArgs == (0 - 1)..(HistoryLines + 1)

\* getChatHistory() copying from the front: the first maxLines lines
getChatHistory_result_fromFront(b, url, maxLines) ==
    IF ~m_initialized[b] THEN <<>>
    ELSE IF ~HasHub(b, url) THEN <<>>
    ELSE LET h == m_hubs[b][url].chatHistory
         IN IF maxLines > 0 /\ Len(h) > maxLines
            THEN SubSeq(h, 1, maxLines) ELSE h

\* :495-508  not initialized or no such hub: empty; else the lines from
\*           index start (counted from 0) to the end, where start is
\*           size - maxLines when maxLines > 0 and size > maxLines, else 0
getChatHistory_result(b, url, maxLines) ==
    IF ~m_initialized[b] THEN <<>>
    ELSE IF ~HasHub(b, url) THEN <<>>
    ELSE LET h == m_hubs[b][url].chatHistory
             start == IF maxLines > 0 /\ Len(h) > maxLines
                      THEN Len(h) - maxLines ELSE 0
         IN [i \in 1..(Len(h) - start) |-> h[start + i]]

\* :492-509  the call, made under m_mutex
getChatHistory_call(t, B, U, N) ==
    /\ pc[t] = "idle"
    /\ UNCHANGED <<eventVars, processVars, am_local, queue>>
    /\ \E b \in B, url \in U, maxLines \in N :
        /\ m_mutex[b] = NoThread
        /\ callArg' = <<url, maxLines>>
        /\ callOut' = <<getChatHistory_result(b, url, maxLines)>>
    /\ Return(t, "gh_done")
    /\ UNCHANGED <<bridgeVars, guardVars, engineVars, routerVars>>

NextHistory ==
    \/ initialize("t1", {"b1"}, {"cfg"})
    \/ connectHub("t1", {"b1"}, {"u1"})
    \/ on_Message_fire(HistoryLines)
    \/ stashChat_lock
    \/ stashChat_push
    \/ on_Message_getcb
    \/ getChatHistory_call("t1", {"b1"}, Urls, MaxLinesArgs)

SpecHistory == Init /\ [][NextHistory]_vars

\* C30: getChatHistory(url, maxLines) returns, oldest first, the last
\* min(maxLines, n) of the n lines cached under url when maxLines > 0 and
\* all n lines when maxLines <= 0; it returns no line for a url that is not
\* in the session table; the history is left as it was.
C30_LastLinesOldestFirst ==
    [][(pc["t1"] = "idle" /\ ret'["t1"] = "gh_done" /\ UNCHANGED eventVars) =>
          LET url == callArg'[1]
              maxLines == callArg'[2]
              got == callOut'[1]
              h == IF HasHub("b1", url)
                   THEN m_hubs["b1"][url].chatHistory ELSE <<>>
              n == Len(h)
              m == IF maxLines > 0 /\ maxLines < n THEN maxLines ELSE n
          IN /\ Len(got) = m
             /\ \A i \in 1..m : got[i] = h[n - m + i]
             /\ ~HasHub("b1", url) => got = <<>>
             /\ m_hubs' = m_hubs]_vars

\* a call with maxLines = 1 on a history of several lines has returned the
\* newest line alone
C30_NewestOfSeveral ==
    /\ ret["t1"] = "gh_done"
    /\ callArg = <<"u1", 1>>
    /\ HasHub("b1", "u1")
    /\ Len(m_hubs["b1"]["u1"].chatHistory) >= 2
    /\ callOut = << <<lineNo>> >>
    /\ m_hubs["b1"]["u1"].chatHistory[Len(m_hubs["b1"]["u1"].chatHistory)]
          = lineNo


\* ------------------------------------------------------------------------
\* on(ClientListener::Message) with the sender and the recipient of the
\* message (bridge_listeners.h:226-249) and the line stashChat formats
\* (bridge_listeners.cpp:20-25).  A text is its number in the order the
\* engine produced it.
\* ------------------------------------------------------------------------
\* msg.from: none (nick stays empty), or a user with that nick
FromNicks == {"", "alice"}
\* msg.to: none, a user with an empty nick, or a user with that nick
NoUser == "nullptr"
ToUsers == {NoUser, "", "bob"}

\* bridge_listeners.cpp:20-25  "<nick> text", or text alone for an empty nick
formatChat(nick, text) ==
    IF nick # "" THEN <<"<", nick, "> ", text>> ELSE <<text>>

\* bridge_listeners.h:226-234  the event is fired on the hub's socket
\*           thread; the handler reads url, nick and text
on_Message_from(N) ==
    /\ wpc = "idle"
    /\ lineNo < N
    /\ \E h \in DOMAIN clients, nick \in FromNicks, to \in ToUsers :
        /\ Fires(h)
        /\ wev' = [kind |-> "Message", h |-> h, url |-> clients[h].url,
                   line |-> lineNo + 1, b |-> NoBridge, cb |-> NoSink,
                   committed |-> FALSE, got |-> <<>>,
                   nick |-> nick, to |-> to]
    /\ lineNo' = lineNo + 1
    /\ wpc' = "msg_lock"
    /\ UNCHANGED <<hostVars, valueVars, processVars, burst, bridgeVars,
                   guardVars, engineVars, routerVars>>

\* bridge_listeners.cpp:17-34  findHub (unknown url: return); the formatted
\*           line is pushed and the history trimmed; the lock's scope ends
stashChat_format ==
    /\ wpc = "msg_stash"
    /\ IF HasHub(wev.b, wev.url)
       THEN /\ m_hubs' = [m_hubs EXCEPT ![wev.b][wev.url].chatHistory =
                            PushChat(@, formatChat(wev.nick, wev.line))]
            /\ wev' = [wev EXCEPT !.committed = TRUE]
       ELSE UNCHANGED <<m_hubs, wev>>
    /\ m_mutex' = [m_mutex EXCEPT ![wev.b] = NoThread]
    /\ wpc' = "msg_getcb"
    /\ UNCHANGED <<hostVars, valueVars, processVars, burst, m_initialized,
                   m_configDir, m_callback, m_fileLists, guardVars,
                   engineVars, routerVars, lineNo>>

\* bridge_listeners.h:238-248  getCallback; no sink: return; a recipient
\*           with a non-empty nick: onPrivateMessage, else onChatMessage
on_Message_route ==
    /\ wpc = "msg_getcb"
    /\ IF bl_callback = NoSink
       THEN wpc' = "idle" /\ wev' = NoEvent
       ELSE /\ wpc' = IF wev.to # NoUser /\ wev.to # ""
                      THEN "pm_sink" ELSE "chat_sink"
            /\ wev' = [wev EXCEPT !.cb = bl_callback]
    /\ UNCHANGED <<hostVars, valueVars, processVars, burst, bridgeVars,
                   guardVars, engineVars, routerVars, lineNo>>

\* the sink callback returns and the handler with it
on_Message_return ==
    /\ wpc \in {"pm_sink", "chat_sink"}
    /\ wpc' = "idle"
    /\ wev' = NoEvent
    /\ UNCHANGED <<hostVars, valueVars, processVars, burst, bridgeVars,
                   guardVars, engineVars, routerVars, lineNo>>

NextOrder ==
    \/ initialize("t1", {"b1"}, {"cfg"})
    \/ setCallback("t1", {"b1"}, Sinks)
    \/ connectHub("t1", {"b1"}, {"u1"})
    \/ on_Message_from(HistoryLines)
    \/ stashChat_lock
    \/ stashChat_format
    \/ on_Message_route
    \/ on_Message_return

SpecOrder == Init /\ [][NextOrder]_vars

\* the text of a cached line: its last element
TextOf(line) == line[Len(line)]

\* C31: every message event appends exactly one line to its session's chat
\* history, "<nick> text" for a non-empty sender nick and the text alone
\* otherwise; the lines of a history are in the order in which the engine
\* produced them; the sink gets the private-message callback exactly when
\* the message has a recipient with a non-empty nick, and the public one
\* otherwise; a handler has returned before the next event of the stream is
\* handled.
C31_OneLinePerMessageInOrder ==
    [][/\ ~(wpc = "msg_lock" /\ wpc' = "msg_getcb")
       /\ (wpc = "msg_stash" /\ wpc' = "msg_getcb") =>
             /\ HasHub(wev.b, wev.url)
             /\ m_hubs'[wev.b][wev.url].chatHistory =
                   Append(m_hubs[wev.b][wev.url].chatHistory,
                          formatChat(wev.nick, wev.line))
       /\ \A b \in Bridges : \A u \in DOMAIN m_hubs'[b] :
             LET h == m_hubs'[b][u].chatHistory
             IN \A i, j \in 1..Len(h) : i < j => TextOf(h[i]) < TextOf(h[j])
       /\ (wpc = "msg_getcb" /\ wpc' = "pm_sink") =>
             (wev.to # NoUser /\ wev.to # "")
       /\ (wpc = "msg_getcb" /\ wpc' = "chat_sink") =>
             (wev.to = NoUser \/ wev.to = "")
       /\ (wpc = "idle" /\ wpc' = "msg_lock") => wev = NoEvent]_vars

\* what holds of C31: a message whose session is in the table appends its
\* formatted line, the order is kept, and the sink callback is chosen by the
\* recipient
ChatOrderWhenInTable ==
    [][/\ (wpc = "msg_stash" /\ wpc' = "msg_getcb" /\ HasHub(wev.b, wev.url)) =>
             m_hubs'[wev.b][wev.url].chatHistory =
                Append(m_hubs[wev.b][wev.url].chatHistory,
                       formatChat(wev.nick, wev.line))
       /\ \A b \in Bridges : \A u \in DOMAIN m_hubs'[b] :
             LET h == m_hubs'[b][u].chatHistory
             IN \A i, j \in 1..Len(h) : i < j => TextOf(h[i]) < TextOf(h[j])
       /\ (wpc = "msg_getcb" /\ wpc' = "pm_sink") =>
             (wev.to # NoUser /\ wev.to # "")
       /\ (wpc = "msg_getcb" /\ wpc' = "chat_sink") =>
             (wev.to = NoUser \/ wev.to = "")]_vars


\* ------------------------------------------------------------------------
\* The user directory of a session: on(ClientListener::UserUpdated /
\* UsersUpdated / UserRemoved) (bridge_listeners.h:257-278), stashUserUpdate
\* and stashUserRemove (bridge_listeners.cpp:50-66), DCBridge::getHubUsers
\* (bridge.cpp:515-528).  The directory is the set of its entries; UsersUpdated
\* is a UserUpdated for each user of its list.
\* ------------------------------------------------------------------------
Nicks == {"alice", "bob"}
\* what userFromOnlineUser reads of a user besides the nick: two versions
UserData == {1, 2}

\* users.erase(nick)
UsersErase(users, nick) == {e \in users : e.nick # nick}

\* users[nick] = ui adding an entry without replacing the one of that nick
UsersPut_keepsOld(users, nick, data) ==
    users \cup {[nick |-> nick, data |-> data]}

\* users[nick] = ui on the map keyed by nick
UsersPut(users, nick, data) ==
    UsersErase(users, nick) \cup {[nick |-> nick, data |-> data]}

\* bridge.cpp:515-528  getHubUsers: every entry of the hub's directory
getHubUsers(b, url) ==
    IF ~m_initialized[b] THEN {}
    ELSE IF ~HasHub(b, url) THEN {}
    ELSE m_hubs[b][url].users

\* bridge_listeners.h:257-261, 272-276  the event is fired on the hub's
\*           socket thread for one online user
on_User_fire ==
    /\ wpc = "idle"
    /\ \E h \in DOMAIN clients, k \in {"UserUpdated", "UserRemoved"},
          nick \in Nicks, data \in UserData :
        /\ Fires(h)
        /\ wev' = [kind |-> k, h |-> h, url |-> clients[h].url, line |-> 0,
                   b |-> NoBridge, cb |-> NoSink, committed |-> FALSE,
                   got |-> <<>>, nick |-> nick, data |-> data]
    /\ wpc' = "usr_stash"
    /\ UNCHANGED <<hostVars, valueVars, processVars, burst, bridgeVars,
                   guardVars, engineVars, routerVars, lineNo>>

\* bridge_listeners.cpp:50-66  stashUserUpdate / stashUserRemove: no
\*           bridge: return; under m_bridge->m_mutex: findHub (unknown url:
\*           return), then users[nick] = ... or users.erase(nick)
stashUser ==
    /\ wpc = "usr_stash"
    /\ IF bl_bridge = NoBridge
       THEN UNCHANGED m_hubs
       ELSE /\ m_mutex[bl_bridge] = NoThread
            /\ IF ~HasHub(bl_bridge, wev.url)
               THEN UNCHANGED m_hubs
               ELSE m_hubs' = [m_hubs EXCEPT ![bl_bridge][wev.url].users =
                                 IF wev.kind = "UserUpdated"
                                 THEN UsersPut(@, wev.nick, wev.data)
                                 ELSE UsersErase(@, wev.nick)]
    /\ wpc' = "usr_getcb"
    /\ UNCHANGED <<hostVars, valueVars, processVars, burst, wev, m_initialized,
                   m_mutex, m_configDir, m_callback, m_fileLists, guardVars,
                   engineVars, routerVars, lineNo>>

\* bridge_listeners.h:259-260, 274-275  getCallback; onUserConnected /
\*           onUserDisconnected when a sink is set; the handler returns
on_User_notify ==
    /\ wpc = "usr_getcb"
    /\ wpc' = "idle"
    /\ wev' = NoEvent
    /\ UNCHANGED <<hostVars, valueVars, processVars, burst, bridgeVars,
                   guardVars, engineVars, routerVars, lineNo>>

\* bridge.cpp:515-528  the call, made under m_mutex
getHubUsers_call(t, B, U) ==
    /\ pc[t] = "idle"
    /\ UNCHANGED <<eventVars, processVars, am_local, queue>>
    /\ \E b \in B, url \in U :
        /\ m_mutex[b] = NoThread
        /\ callArg' = <<url>>
        /\ callOut' = <<getHubUsers(b, url)>>
    /\ Return(t, "gu_done")
    /\ UNCHANGED <<bridgeVars, guardVars, engineVars, routerVars>>

NextUsers ==
    \/ initialize("t1", {"b1"}, {"cfg"})
    \/ connectHub("t1", {"b1"}, {"u1"})
    \/ disconnectHub("t1", {"b1"}, {"u1"})
    \/ shutdown("t1", {"b1"})
    \/ getHubUsers_call("t1", {"b1"}, Urls)
    \/ on_User_fire
    \/ stashUser
    \/ on_User_notify

SpecUsers == Init /\ [][NextUsers]_vars

UsersAt(hubs, b, u) == IF u \in DOMAIN hubs[b] THEN hubs[b][u].users ELSE {}

MaxResults == 2
\* the hub url of a result: a url a session may be stored under, or another
ResultUrls == Urls \cup {"u9"}

\* bridge_listeners.h:298-300  a result arrives and infoFromSearchResult
\*           reads it
on_SR_fire(N) ==
    /\ wpc = "idle"
    /\ bl_subscribed
    /\ lineNo < N
    /\ \E url \in ResultUrls :
        wev' = [NoEvent EXCEPT !.kind = "SR", !.url = url, !.line = lineNo + 1]
    /\ lineNo' = lineNo + 1
    /\ wpc' = "sr_stash"
    /\ UNCHANGED <<hostVars, valueVars, processVars, burst, bridgeVars,
                   guardVars, engineVars, routerVars>>

\* stashSearchResult() storing a result only under its own hub url
stashSearchResult_dropsUnmatched ==
    /\ wpc = "sr_stash"
    /\ IF bl_bridge = NoBridge
       THEN UNCHANGED m_hubs
       ELSE /\ m_mutex[bl_bridge] = NoThread
            /\ IF HasHub(bl_bridge, wev.url)
               THEN m_hubs' = [m_hubs EXCEPT
                      ![bl_bridge][wev.url].searchResults =
                          Append(@, <<wev.url, wev.line>>)]
               ELSE UNCHANGED m_hubs
    /\ wpc' = "sr_getcb"
    /\ UNCHANGED <<hostVars, valueVars, processVars, burst, wev, m_initialized,
                   m_mutex, m_configDir, m_callback, m_fileLists, guardVars,
                   engineVars, routerVars, lineNo>>

\* bridge_listeners.cpp:36-48  no bridge: return; under m_bridge->m_mutex:
\*           push_back to the hub of that url, else to m_hubs.begin() (any
\*           entry of the unordered_map) when the table is not empty
stashSearchResult ==
    /\ wpc = "sr_stash"
    /\ IF bl_bridge = NoBridge
       THEN UNCHANGED m_hubs
       ELSE /\ m_mutex[bl_bridge] = NoThread
            /\ IF HasHub(bl_bridge, wev.url)
               THEN m_hubs' = [m_hubs EXCEPT
                      ![bl_bridge][wev.url].searchResults =
                          Append(@, <<wev.url, wev.line>>)]
               ELSE IF DOMAIN m_hubs[bl_bridge] # {}
               THEN \E first \in DOMAIN m_hubs[bl_bridge] :
                      m_hubs' = [m_hubs EXCEPT
                        ![bl_bridge][first].searchResults =
                            Append(@, <<wev.url, wev.line>>)]
               ELSE UNCHANGED m_hubs
    /\ wpc' = "sr_getcb"
    /\ UNCHANGED <<hostVars, valueVars, processVars, burst, wev, m_initialized,
                   m_mutex, m_configDir, m_callback, m_fileLists, guardVars,
                   engineVars, routerVars, lineNo>>

\* bridge_listeners.h:305-308  getCallback; a sink: onSearchResult is entered
on_SR_getcb ==
    /\ wpc = "sr_getcb"
    /\ IF bl_callback = NoSink
       THEN wpc' = "idle" /\ wev' = NoEvent
       ELSE wpc' = "sr_sink" /\ wev' = [wev EXCEPT !.cb = bl_callback]
    /\ UNCHANGED <<hostVars, valueVars, processVars, burst, bridgeVars,
                   guardVars, engineVars, routerVars, lineNo>>

\* the sink callback returns and the handler with it
on_SR_return ==
    /\ wpc = "sr_sink"
    /\ wpc' = "idle"
    /\ wev' = NoEvent
    /\ UNCHANGED <<hostVars, valueVars, processVars, burst, bridgeVars,
                   guardVars, engineVars, routerVars, lineNo>>

NextResults ==
    \/ initialize("t1", {"b1"}, {"cfg"})
    \/ setCallback("t1", {"b1"}, Sinks)
    \/ connectHub("t1", {"b1"}, Urls)
    \/ disconnectHub("t1", {"b1"}, Urls)
    \/ on_SR_fire(MaxResults)
    \/ stashSearchResult
    \/ on_SR_getcb
    \/ on_SR_return

SpecResults == Init /\ [][NextResults]_vars

\* the table hubs with result r appended to the list of session u of b
WithResult(hubs, b, u, r) ==
    [hubs EXCEPT ![b][u].searchResults = Append(@, r)]

\* C33: a search-result event is appended to the result list of exactly one
\* session and nothing else changes: the session stored under the result's
\* hub url when there is one, otherwise one of the sessions in the table, and
\* no session when the table is empty; in each case the sink, when one is
\* registered, is entered for the event after that.
C33_ResultStoredOnce ==
    [][/\ (wpc = "sr_stash" /\ wpc' = "sr_getcb") =>
             LET b == bl_bridge
                 r == <<wev.url, wev.line>>
             IN IF HasHub(b, wev.url)
                THEN m_hubs' = WithResult(m_hubs, b, wev.url, r)
                ELSE IF DOMAIN m_hubs[b] # {}
                THEN \E u \in DOMAIN m_hubs[b] :
                        m_hubs' = WithResult(m_hubs, b, u, r)
                ELSE m_hubs' = m_hubs
       /\ (wpc = "sr_getcb" /\ wpc' # wpc /\ bl_callback # NoSink) =>
             wpc' = "sr_sink"
       /\ wpc' = "sr_sink" => wpc \in {"sr_getcb", "sr_sink"}]_vars

\* a result of a hub url that has no session has been put into the list of
\* a session that is in the table, and the sink is being told of it
C33_StoredUnderOtherSession ==
    /\ wpc = "sr_sink"
    /\ wev.url = "u9"
    /\ HasHub("b1", "u2")
    /\ Len(m_hubs["b1"]["u2"].searchResults) > 0
    /\ m_hubs["b1"]["u2"].searchResults[Len(m_hubs["b1"]["u2"].searchResults)]
          = <<"u9", wev.line>>


\* ------------------------------------------------------------------------
\* DCBridge::getSearchResults and clearSearchResults (bridge.cpp:593-631)
\* ------------------------------------------------------------------------
\* the argument hubUrl: a session url or the empty string
AllHubs == ""
UrlArgs == Urls \cup {AllHubs}

\* the orders in which a loop over the unordered_map can visit the keys S
VisitOrders(S) ==
    {o \in [1..Cardinality(S) -> S] :
        \A i, j \in 1..Cardinality(S) : i # j => o[i] # o[j]}

RECURSIVE ConcatResults(_, _, _)
ConcatResults(hubs, order, i) ==
    IF i > Len(order) THEN <<>>
    ELSE hubs[order[i]].searchResults \o ConcatResults(hubs, order, i + 1)

\* :600-613  the lists getSearchResults(hubUrl) can return from table hubs
getSearchResults_results(hubs, hubUrl) ==
    IF hubUrl = AllHubs
    THEN {ConcatResults(hubs, o, 1) : o \in VisitOrders(DOMAIN hubs)}
    ELSE IF hubUrl \in DOMAIN hubs THEN {hubs[hubUrl].searchResults}
    ELSE {<<>>}

\* clearSearchResults() clearing every hub whatever the url
clearSearchResults_result_clearsAll(hubs, hubUrl) ==
    [u \in DOMAIN hubs |-> [hubs[u] EXCEPT !.searchResults = <<>>]]

\* :620-630  the table after clearSearchResults(hubUrl)
clearSearchResults_result(hubs, hubUrl) ==
    IF hubUrl = AllHubs
    THEN [u \in DOMAIN hubs |-> [hubs[u] EXCEPT !.searchResults = <<>>]]
    ELSE IF hubUrl \in DOMAIN hubs
    THEN [hubs EXCEPT ![hubUrl].searchResults = <<>>]
    ELSE hubs

\* :593-614  getSearchResults(hubUrl), under m_mutex
getSearchResults_call(t, B, U) ==
    /\ pc[t] = "idle"
    /\ UNCHANGED <<eventVars, processVars, am_local, queue>>
    /\ \E b \in B, url \in U :
        /\ m_mutex[b] = NoThread
        /\ callArg' = <<url>>
        /\ \E got \in IF m_initialized[b]
                       THEN getSearchResults_results(m_hubs[b], url)
                       ELSE {<<>>} :
              callOut' = <<got>>
    /\ Return(t, "sr_got")
    /\ UNCHANGED <<bridgeVars, guardVars, engineVars, routerVars>>

\* :616-631  clearSearchResults(hubUrl), under m_mutex
clearSearchResults_call(t, B, U) ==
    /\ pc[t] = "idle"
    /\ UNCHANGED <<eventVars, processVars, am_local, callOut, queue>>
    /\ \E b \in B, url \in U :
        /\ m_mutex[b] = NoThread
        /\ callArg' = <<url>>
        /\ m_hubs' = IF m_initialized[b]
                     THEN [m_hubs EXCEPT
                             ![b] = clearSearchResults_result(@, url)]
                     ELSE m_hubs
    /\ Return(t, "sr_cleared")
    /\ UNCHANGED <<m_initialized, m_mutex, m_configDir, m_callback, m_fileLists,
                   guardVars, engineVars, routerVars>>

NextSearch ==
    \/ initialize("t1", {"b1"}, {"cfg"})
    \/ connectHub("t1", {"b1"}, Urls)
    \/ on_SR_fire(MaxResults)
    \/ stashSearchResult
    \/ on_SR_getcb
    \/ getSearchResults_call("t1", {"b1"}, UrlArgs)
    \/ clearSearchResults_call("t1", {"b1"}, UrlArgs)

SpecSearch == Init /\ [][NextSearch]_vars

\* session u of table hubs with its result list emptied
Emptied(hubs, u) == [hubs[u] EXCEPT !.searchResults = <<>>]

\* C34: clearSearchResults(url) with a non-empty url empties the result list
\* of that session and changes nothing else (other sessions' results, chat
\* histories, user directories, snapshots, native handles);
\* clearSearchResults("") empties the list of every session;
\* getSearchResults("") returns the lists of all sessions one after another,
\* getSearchResults(url) the list of that session, empty for an unknown url;
\* neither changes any state.
C34_ClearOnlyThatSession ==
    [][/\ (pc["t1"] = "idle" /\ ret'["t1"] = "sr_cleared"
           /\ UNCHANGED eventVars) =>
             LET url == callArg'[1]
                 hubs == m_hubs["b1"]
             IN /\ DOMAIN m_hubs'["b1"] = DOMAIN hubs
                /\ \A u \in DOMAIN hubs :
                      m_hubs'["b1"][u] =
                         IF url = AllHubs \/ u = url
                         THEN Emptied(hubs, u) ELSE hubs[u]
                /\ clients' = clients
       /\ (pc["t1"] = "idle" /\ ret'["t1"] = "sr_got"
           /\ UNCHANGED eventVars) =>
             LET url == callArg'[1]
                 hubs == m_hubs["b1"]
                 got == callOut'[1]
             IN /\ url # AllHubs =>
                      got = IF url \in DOMAIN hubs
                            THEN hubs[url].searchResults ELSE <<>>
                /\ url = AllHubs =>
                      \E o \in VisitOrders(DOMAIN hubs) :
                         got = ConcatResults(hubs, o, 1)
                /\ UNCHANGED <<bridgeVars, engineVars>>]_vars

\* both sessions were connected once and hold a result; getSearchResults
\* has returned the list of u1, and clearSearchResults("u1") has then
\* emptied it and left the list of u2
C34_OneOfTwoCleared ==
    /\ ret["t1"] = "sr_cleared"
    /\ callArg = <<"u1">>
    /\ Len(clients) = 2
    /\ HasHub("b1", "u1") /\ HasHub("b1", "u2")
    /\ callOut = << << <<"u1", 1>> >> >>
    /\ m_hubs["b1"]["u1"].searchResults = <<>>
    /\ m_hubs["b1"]["u2"].searchResults = << <<"u2", 2>> >>


\* ------------------------------------------------------------------------
\* DCBridge::downloadFileFromList (bridge.cpp:901-987) with its path
\* argument: the file is looked up in the listing's tree (Directories,
\* Files) and what is captured of it is handed to QueueManager::add
\* ------------------------------------------------------------------------
\* the paths tried: none, the root alone, files of the root with and
\* without a leading separator, files one and two directories down, a
\* doubled separator, a directory given as the file, a file under the
\* wrong directory, names the tree does not have, a trailing separator
FilePaths ==
    { <<>>, <<Slash>>, <<"f">>, <<Slash, "f">>, <<Slash, "g">>,
      <<"a", Slash, "g">>, <<Slash, "a", Slash, "g">>,
      <<"a", Slash, Slash, "g">>, <<"a", Slash, "f">>,
      <<Slash, "a">>, <<"a", Slash>>, <<"a", Slash, "c">>,
      <<"a", Slash, "c", Slash, "h">>, <<"c", Slash, "h">>,
      <<"a", "b", Slash, "a", Slash, "k">>, <<"x", Slash, "g">> }

\* std::string::rfind('/') counted from 1; 0 when there is none
LastSlash(path) ==
    LET hits == {i \in 1..Len(path) : path[i] = Slash}
    IN  IF hits = {} THEN 0 ELSE CHOOSE i \in hits : \A j \in hits : j <= i

\* Util::getFilePath(path, '/'): up to and with the last separator, the
\* whole path when it has none
getFilePath(path) ==
    IF LastSlash(path) # 0 THEN SubSeq(path, 1, LastSlash(path)) ELSE path

\* Util::getFileName(path, '/'): after the last separator, the whole path
\* when it has none
getFileName(path) ==
    IF LastSlash(path) # 0 THEN SubSeq(path, LastSlash(path) + 1, Len(path))
    ELSE path

\* the lookup taking a subdirectory of that name for the file
FindFile_anyEntry(dir, fname) ==
    {f \in Files : f.parent = dir /\ f.name = fname}
    \cup {[name |-> d.name, parent |-> d.parent] :
            d \in {x \in Directories : x.parent = dir /\ x.name = fname}}

\* :946-953  the files of dir named fname
FindFile(dir, fname) == {f \in Files : f.parent = dir /\ f.name = fname}

\* :904  not initialized: return false
downloadFileFromList_begin(t, B, L, P) ==
    /\ pc[t] = "idle"
    /\ UNCHANGED <<eventVars, processVars, queue>>
    /\ \E b \in B, id \in L, filePath \in P :
        /\ callArg' = <<id, filePath>>
        /\ am_local' = <<>>
        /\ IF ~m_initialized[b]
           THEN Return(t, "dff_false") /\ callOut' = <<FALSE>>
           ELSE Enter(t, "dff_lock", b, id) /\ callOut' = <<>>
    /\ UNCHANGED <<bridgeVars, guardVars, engineVars, routerVars>>

\* :915-975  under m_mutex: the id is not open, the name is empty, a
\*           directory token or the file is not found: return false; else
\*           the file's data and the listing's user are copied out; the
\*           lock's scope ends
downloadFileFromList_capture(t) ==
    /\ pc[t] = "dff_lock"
    /\ UNCHANGED <<eventVars, processVars, callArg, queue>>
    /\ m_mutex[br[t]] = NoThread
    /\ LET directory == getFilePath(callArg[2])
           fname == getFileName(callArg[2])
           dir == IF directory # <<>> /\ directory # <<Slash>>
                  THEN Navigate(Root, Tokens(directory, 1), 1)
                  ELSE <<Root>>
           found == IF dir = <<>> THEN {} ELSE FindFile(dir[1], fname)
       IN IF key[t] \notin m_fileLists[br[t]] \/ fname = <<>> \/ found = {}
          THEN /\ Return(t, "dff_false")
               /\ callOut' = <<FALSE>>
               /\ UNCHANGED am_local
          ELSE /\ Goto(t, "dff_add")
               /\ am_local' = <<[file |-> CHOOSE f \in found : TRUE,
                                 listing |-> key[t]]>>
               /\ UNCHANGED <<cap, callOut>>
    /\ UNCHANGED <<bridgeVars, guardVars, engineVars, routerVars>>

\* :979-986  QueueManager::add, m_mutex not held; an Exception: return
\*           false; else true
downloadFileFromList_admit(t) ==
    /\ pc[t] = "dff_add"
    /\ UNCHANGED <<eventVars, processVars, callArg, am_local>>
    /\ \E raised \in BOOLEAN :
        IF raised
        THEN /\ Return(t, "dff_false")
             /\ callOut' = <<FALSE>>
             /\ UNCHANGED queue
        ELSE /\ Return(t, "dff_true")
             /\ callOut' = <<TRUE>>
             /\ queue' = queue \cup {am_local[1]}
    /\ UNCHANGED <<bridgeVars, guardVars, engineVars, routerVars>>

NextFile ==
    \/ initialize("t1", {"b1"}, {"cfg"})
    \/ openFileList("t1", {"b1"}, ListIds)
    \/ closeFileList("t1", {"b1"}, ListIds)
    \/ downloadFileFromList_begin("t1", {"b1"}, ListIds, FilePaths)
    \/ downloadFileFromList_capture("t1")
    \/ downloadFileFromList_admit("t1")

SpecFile == Init /\ [][NextFile]_vars

\* the files that filePath names in the tree: under the directory whose
\* names from the root are the non-empty segments before the last
\* separator, the file whose name is what follows it
FilesAt(filePath) ==
    {f \in Files :
        /\ f.name = getFileName(filePath)
        /\ NodePath(f.parent) = Segments(getFilePath(filePath))}

NextSweep ==
    \/ initialize("t1", {"b1"}, {"cfg"})
    \/ shutdown("t1", {"b1"})
    \/ connectHub("t2", {"b1"}, {"u1"})
    \/ openFileList("t2", {"b1"}, ListIds)

SpecSweep == Init /\ [][NextSweep]_vars

\* C36: whenever the instance is Uninitialized after a completed shutdown()
\* (the call has returned having cleared the Running flag), its session
\* table and its listing table are empty: a connectHub or openFileList that
\* ran at the same time has left no entry behind.
C36_EmptyAfterShutdown ==
    (pc["t1"] = "idle" /\ ret["t1"] = "sd_done" /\ ~m_initialized["b1"]) =>
        /\ m_hubs["b1"] = EmptyMap
        /\ m_fileLists["b1"] = {}

\* the same for the listing table alone
C36_NoListingAfterShutdown ==
    (pc["t1"] = "idle" /\ ret["t1"] = "sd_done" /\ ~m_initialized["b1"]) =>
        m_fileLists["b1"] = {}


\* ------------------------------------------------------------------------
\* shutdown() on one host thread while another calls control operations
\* of the same instance
\* ------------------------------------------------------------------------
TeardownOps ==
    {OpNamed("getShareSize"), OpNamed("getSharedFileCount"),
     OpNamed("refreshShare"), OpNamed("startNetworking"),
     OpNamed("luaEval")}

NextTeardown ==
    \/ initialize("t1", {"b1"}, {"cfg"})
    \/ connectHub("t1", {"b1"}, {"u1"})
    \/ shutdown("t1", {"b1"})
    \/ control("t2", {"b1"}, TeardownOps)

SpecTeardown == Init /\ [][NextTeardown]_vars

\* C37: no operation of the facade makes its call on an engine singleton
\* while no engine is live, that is before dcpp::startup has completed or
\* after dcpp::shutdown has run; a control operation running at the same
\* time as shutdown() never reaches its engine call after dcpp::shutdown.
C37_EngineCallsOnLiveEngine ==
    [][\A t \in Threads :
          (pc[t] = "op_engine" /\ pc'[t] = "idle") => engineLive >= 1]_vars

\* the same for the operations that open with the test of m_initialized
C37_GuardedCallsOnLiveEngine ==
    [][\A t \in Threads :
          (pc[t] = "op_engine" /\ pc'[t] = "idle"
           /\ OpNamed(key[t]).guard # "none") => engineLive >= 1]_vars


\* the positions inside shutdown()'s body, past its opening test
TeardownPcs ==
    {"sd_unsub", "sd_lock", "sd_sweep", "sd_release", "sd_drain", "sd_lua",
     "sd_dcpp", "sd_glock", "sd_gstore", "sd_done"}

\* C38: for each engine start the teardown (worker drain, interpreter
\* close, dcpp::shutdown) is executed at most once: dcpp::shutdown is never
\* run when the engine is already torn down, and of two threads that call
\* shutdown() on the same Running instance at the same time only one is
\* ever inside the teardown.  (Checked under Spec.)
C38_TeardownAtMostOnce ==
    [][/\ \A t \in Threads :
             (pc[t] = "sd_dcpp" /\ pc'[t] = "sd_glock") => engineLive >= 1
       /\ \A t1, t2 \in Threads :
             (t1 # t2 /\ pc'[t1] \in TeardownPcs /\ pc'[t2] \in TeardownPcs)
                 => br'[t1] # br'[t2]]_vars

\* the same for dcpp::shutdown alone
C38_EngineShutDownOnce ==
    [][\A t \in Threads :
          (pc[t] = "sd_dcpp" /\ pc'[t] = "sd_glock") => engineLive >= 1]_vars


\* ------------------------------------------------------------------------
\* two host threads connecting the same url on one instance
\* ------------------------------------------------------------------------
NextConnect ==
    \/ initialize("t1", {"b1"}, {"cfg"})
    \/ connectHub("t1", {"b1"}, {"u1"})
    \/ connectHub("t2", {"b1"}, {"u1"})
    \/ disconnectHub("t1", {"b1"}, {"u1"})

SpecConnect == Init /\ [][NextConnect]_vars

\* the handles a call in progress holds in its frame
InFrame == UNION {cap[t] : t \in Threads}

\* the session-table entries, of any instance, that refer to handle h
EntriesOf(h) ==
    {<<b, u>> \in Bridges \X Urls :
        u \in DOMAIN m_hubs[b] /\ m_hubs[b][u].client = h}

\* C39: every native client handle that connectHub has obtained and that
\* has not been released is, once the call that obtained it has returned
\* (and while no disconnectHub or shutdown holds it for release),
\* referenced by exactly one session-table entry: two threads connecting
\* the same url never obtain two clients for it, and no insertion
\* overwrites an entry whose handle is unreleased.
C39_OneEntryPerHandle ==
    \A h \in DOMAIN clients :
        (~clients[h].released /\ h \notin InFrame) =>
            Cardinality(EntriesOf(h)) = 1

\* two clients obtained for one url are never unreleased at the same time
C39_OneClientPerUrl ==
    \A h1, h2 \in DOMAIN clients :
        (h1 # h2 /\ clients[h1].url = clients[h2].url) =>
            clients[h1].released \/ clients[h2].released

====
